---- MODULE Spec2Model ----
(***************************************************************************)
(* The asynchronous media-processing pipeline of ContentAgent              *)
(* (apps/content): the persisted Task Records and Subtitles, the           *)
(* coordinator operations of services.py / views.py and the four Celery    *)
(* executors of tasks.py, interleaved at the granularity of one database   *)
(* or broker operation.                                                    *)
(***************************************************************************)
EXTENDS Integers, Sequences, FiniteSets, TLC

\* ------------------------------------------------------------------ bounds
MaxRequests == 4      \* state-changing API requests in one behaviour
FewRequests == 3      \* the same, where every retry is explored
MaxContents == 1      \* Content rows ever created for the project
FewFailures == 2      \* external failures injected where retries are not the subject
MaxFailures == 4      \* external failures injected where every retry is explored
ManyRequests == 6     \* requests where a subtitle is regenerated and retranslated
OneFailure == 1       \* external failures injected where deliveries are duplicated
MaxParts == 3         \* fragments concatenated into one URL
OneDuplicate == 1     \* messages the broker delivers a second time

\* -------------------------------------------------------- program constants
max_retries == 3      \* @shared_task(max_retries=3)

NULL == "null"        \* a NULL column / Python None (string-typed columns)
TS == "ts"            \* a set timestamp, timezone.now()
NoHandle == 0         \* task_id column still NULL

\* Search-result links a project can commit to: character sequences whose
\* case the classifier has to fold.
Links ==
  { <<"h", "t", "t", "p", "s", ":", "/", "/", "w", "w", "w", ".", "Y", "o",
      "u", "T", "u", "b", "e", ".", "c", "o", "m", "/", "w", "a", "t", "c",
      "h">>,
    <<"h", "t", "t", "p", "s", ":", "/", "/", "i", "n", "s", "t", "a", "g",
      "r", ".", "a", "m", "/", "r", "e", "e", "l">>,
    <<"h", "t", "t", "p", "s", ":", "/", "/", "L", "i", "n", "k", "e", "d",
      "I", "n", ".", "c", "o", "m", "/", "p", "o", "s", "t", "s">>,
    <<"h", "t", "t", "p", "s", ":", "/", "/", "e", "x", "a", "m", "p", "l",
      "e", ".", "o", "r", "g", "/", "n", "e", "w", "s">> }

Languages == {"original", "spanish"}

VARIABLES
  contents,     \* Content rows:           id -> record
  downloads,    \* VideoDownloadTask rows: id -> record
  subtitles,    \* Subtitle rows:          id -> record
  burns,        \* SubtitleBurnTask rows:  id -> record
  watermarks,   \* WatermarkTask rows:     id -> record
  jobs,         \* Celery messages, queued or being executed by a worker
  pending,      \* creation calls that enqueued and have not yet saved task_id
  translations, \* translate_subtitle_synchronous calls in progress
  nextId,       \* next fresh primary key (uuid4) of each table
  nreq,         \* state-changing API requests issued so far
  nfail,        \* external failures injected so far
  lastWriter,   \* the job that last ran update_content_file_path
  resp,         \* the response to the latest API request (when observed)
  runs,         \* how many times each task's body has been started
  scope,        \* what one behaviour explores; never changes
  ndup,         \* messages the broker has delivered a second time so far
  scratch,      \* burn task ids whose subtitles/<id>.srt file exists
  views         \* SubtitleGenerateView.post calls that have read the content

vars == <<contents, downloads, subtitles, burns, watermarks, jobs, pending,
          translations, nextId, nreq, nfail, lastWriter, resp, runs, scope, ndup, scratch, views>>

\* ---------------------------------------------------------------- tables
EmptyTable == << >>

Insert(tbl, id, rec) ==
  [x \in (DOMAIN tbl) \cup {id} |-> IF x = id THEN rec ELSE tbl[x]]

Remove(tbl, ids) == [x \in (DOMAIN tbl) \ ids |-> tbl[x]]

\* a URL is the sequence of its characters
Uppercase ==
  <<"A", "B", "C", "D", "E", "F", "G", "H", "I", "J", "K", "L", "M",
    "N", "O", "P", "Q", "R", "S", "T", "U", "V", "W", "X", "Y", "Z">>

Lowercase ==
  <<"a", "b", "c", "d", "e", "f", "g", "h", "i", "j", "k", "l", "m",
    "n", "o", "p", "q", "r", "s", "t", "u", "v", "w", "x", "y", "z">>

\* str.lower() left undone: the URL is compared as it was given
Lower_as_given(url) == url

\* url.lower()
Lower(url) ==
  [i \in DOMAIN url |->
     IF \E k \in DOMAIN Uppercase : Uppercase[k] = url[i]
       THEN Lowercase[CHOOSE k \in DOMAIN Uppercase : Uppercase[k] = url[i]]
       ELSE url[i]]

\* needle in url
Contains(url, needle) ==
  \E i \in 1..(Len(url) - Len(needle) + 1) :
    SubSeq(url, i, i + Len(needle) - 1) = needle

instagram_com == <<"i", "n", "s", "t", "a", "g", "r", "a", "m", ".", "c", "o", "m">>
instagr_am == <<"i", "n", "s", "t", "a", "g", "r", ".", "a", "m">>
youtube_com == <<"y", "o", "u", "t", "u", "b", "e", ".", "c", "o", "m">>
youtu_be == <<"y", "o", "u", "t", "u", ".", "b", "e">>
linkedin_com == <<"l", "i", "n", "k", "e", "d", "i", "n", ".", "c", "o", "m">>

detect_content_info(url) ==
  LET url_lower == Lower(url) IN
  IF Contains(url_lower, instagram_com) \/ Contains(url_lower, instagr_am)
    THEN [content_type |-> "video", platform |-> "instagram"]
  ELSE IF Contains(url_lower, youtube_com) \/ Contains(url_lower, youtu_be)
    THEN [content_type |-> "video", platform |-> "youtube"]
  ELSE IF Contains(url_lower, linkedin_com)
    THEN [content_type |-> "video", platform |-> "linkedin"]
  ELSE [content_type |-> "text", platform |-> "other"]

detect_platform(url) ==
  LET url_lower == Lower(url) IN
  IF Contains(url_lower, instagram_com) \/ Contains(url_lower, instagr_am)
    THEN "instagram"
  ELSE IF Contains(url_lower, youtube_com) \/ Contains(url_lower, youtu_be)
    THEN "youtube"
  ELSE IF Contains(url_lower, linkedin_com) THEN "linkedin"
  ELSE "other"

\* ------------------------------------------------------------ file paths
NoFile == << >>                                   \* file_path IS NULL
DownloadPath(cid) == <<"videos", cid>>            \* videos/<content.id>.mp4
\* an output named after the delivery that produced it
SubtitledPath_per_delivery(cid, lang) == <<"videos/subtitled", cid, lang, ndup>>
\* videos/subtitled/<content.id>_<language>.mp4
SubtitledPath(cid, lang) == <<"videos/subtitled", cid, lang>>
WatermarkedPath(cid) == <<"videos/watermarked", cid>>

\* --------------------------------------------------------------- models
NewContent(link, info) ==
  [source_url |-> link, content_type |-> info.content_type,
   platform |-> info.platform, file_path |-> NoFile]

NewVideoDownloadTask(cid) ==
  [content |-> cid, task_id |-> NoHandle, status |-> "pending", progress |-> 0,
   error_message |-> NULL, download_url |-> NULL, file_size |-> 0,
   started_at |-> NULL, completed_at |-> NULL]

NewSubtitle(cid, lang, st, started) ==
  [content |-> cid, language |-> lang, task_id |-> NoHandle, status |-> st,
   subtitle_text |-> NULL, error_message |-> NULL,
   started_at |-> started, completed_at |-> NULL]

NewSubtitleBurnTask(sid) ==
  [subtitle |-> sid, task_id |-> NoHandle, status |-> "pending",
   output_file_path |-> NoFile, error_message |-> NULL,
   started_at |-> NULL, completed_at |-> NULL]

NewWatermarkTask(cid) ==
  [content |-> cid, task_id |-> NoHandle, status |-> "pending",
   output_file_path |-> NoFile, error_message |-> NULL,
   started_at |-> NULL, completed_at |-> NULL]

\* A Celery message / worker invocation.  pc = "queued" while the message
\* waits in the broker (or for its retry countdown); the other fields are
\* the locals the executor carries between two database operations.
NewJob(kind, id) ==
  [kind |-> kind, id |-> id, retries |-> 0, delivery |-> 1, pc |-> "queued",
   content |-> 0, platform |-> NULL, file_path |-> NoFile,
   language |-> NULL, text |-> NULL, input |-> NoFile, exc |-> NULL,
   row |-> NULL, polls |-> 0]

Raise(j, e) == [j EXCEPT !.pc = "except", !.exc = e]

Step(j, pc) == [j EXCEPT !.pc = pc]

None == -1            \* an omitted integer keyword argument

\* ------------------------------------------------- services: row updates
\* A status write that never leaves processing for downloading: the status
\* order of a forward-only state machine (not what services.py does).
update_download_task_status_forward(task, status, progress, error_message, download_url, file_size) ==
  LET keep == task.status = "processing" /\ status = "downloading"
      t1 == [task EXCEPT !.status = IF keep THEN task.status ELSE status]
      t2 == IF progress # None THEN [t1 EXCEPT !.progress = progress] ELSE t1
      t3 == IF error_message # NULL
              THEN [t2 EXCEPT !.error_message = error_message] ELSE t2
      t4 == IF download_url # NULL
              THEN [t3 EXCEPT !.download_url = download_url] ELSE t3
      t5 == IF file_size # None THEN [t4 EXCEPT !.file_size = file_size] ELSE t4
  IN IF status \in {"completed", "failed"}
       THEN [t5 EXCEPT !.completed_at = TS,
                       !.progress = IF status = "completed" THEN 100
                                    ELSE t5.progress]
       ELSE t5

\* The row `task` as read by objects.get(id=...), returned as save() writes it.
update_download_task_status(task, status, progress, error_message, download_url, file_size) ==
  LET t1 == [task EXCEPT !.status = status]
      t2 == IF progress # None THEN [t1 EXCEPT !.progress = progress] ELSE t1
      t3 == IF error_message # NULL
              THEN [t2 EXCEPT !.error_message = error_message] ELSE t2
      t4 == IF download_url # NULL
              THEN [t3 EXCEPT !.download_url = download_url] ELSE t3
      t5 == IF file_size # None THEN [t4 EXCEPT !.file_size = file_size] ELSE t4
      t6 == IF status = "downloading" /\ t5.started_at = NULL
              THEN [t5 EXCEPT !.started_at = TS] ELSE t5
  IN IF status \in {"completed", "failed"}
       THEN [t6 EXCEPT !.completed_at = TS,
                       !.progress = IF status = "completed" THEN 100
                                    ELSE t6.progress]
       ELSE t6

\* Content row with file_path replaced: save(update_fields=['file_path'])
update_content_file_path(content, file_path) ==
  [content EXCEPT !.file_path = file_path]

update_subtitle_status(subtitle, status, subtitle_text, error_message) ==
  LET s1 == [subtitle EXCEPT !.status = status]
      s2 == IF subtitle_text # NULL
              THEN [s1 EXCEPT !.subtitle_text = subtitle_text] ELSE s1
      s3 == IF error_message # NULL
              THEN [s2 EXCEPT !.error_message = error_message] ELSE s2
      s4 == IF status = "generating" /\ s3.started_at = NULL
              THEN [s3 EXCEPT !.started_at = TS] ELSE s3
  IN IF status \in {"completed", "failed"}
       THEN [s4 EXCEPT !.completed_at = TS] ELSE s4

update_burn_task_status(burn_task, status, output_file_path, error_message) ==
  LET b1 == [burn_task EXCEPT !.status = status]
      b2 == IF output_file_path # NoFile
              THEN [b1 EXCEPT !.output_file_path = output_file_path] ELSE b1
      b3 == IF error_message # NULL
              THEN [b2 EXCEPT !.error_message = error_message] ELSE b2
      b4 == IF status = "processing" /\ b3.started_at = NULL
              THEN [b3 EXCEPT !.started_at = TS] ELSE b3
  IN IF status \in {"completed", "failed"}
       THEN [b4 EXCEPT !.completed_at = TS] ELSE b4

update_watermark_task_status(watermark_task, status, output_file_path, error_message) ==
  LET w1 == [watermark_task EXCEPT !.status = status]
      w2 == IF output_file_path # NoFile
              THEN [w1 EXCEPT !.output_file_path = output_file_path] ELSE w1
      w3 == IF error_message # NULL
              THEN [w2 EXCEPT !.error_message = error_message] ELSE w2
      w4 == IF status = "processing" /\ w3.started_at = NULL
              THEN [w3 EXCEPT !.started_at = TS] ELSE w3
  IN IF status \in {"completed", "failed"}
       THEN [w4 EXCEPT !.completed_at = TS] ELSE w4

\* ------------------------------------------------------------- selectors
get_download_task_by_id(task_id) ==
  IF task_id \in DOMAIN downloads THEN {downloads[task_id]} ELSE {}

get_subtitle_by_id(subtitle_id) ==
  IF subtitle_id \in DOMAIN subtitles THEN {subtitles[subtitle_id]} ELSE {}

get_burn_task_by_id(burn_task_id) ==
  IF burn_task_id \in DOMAIN burns THEN {burns[burn_task_id]} ELSE {}

get_watermark_task_by_id(watermark_task_id) ==
  IF watermark_task_id \in DOMAIN watermarks
    THEN {watermarks[watermark_task_id]} ELSE {}

\* Subtitle.objects.get(content=content, language=language), as a set of ids
get_subtitle_by_content(cid, language) ==
  {s \in DOMAIN subtitles :
     subtitles[s].content = cid /\ subtitles[s].language = language}

\* ------------------------------------------------------- Celery plumbing
Replace(j, j2) == (jobs \ {j}) \cup {j2}

\* task.delay(id): a fresh message with request.retries = 0
delay(kind, id) == jobs \cup {NewJob(kind, id)}

\* self.retry with the limit compared one too late: a fourth retry
retry_once_more(j) ==
  IF j.retries > max_retries
    THEN jobs \ {j}
    ELSE Replace(j, [NewJob(j.kind, j.id) EXCEPT !.retries = j.retries + 1,
                                                 !.delivery = j.delivery])

\* self.retry(exc=e): re-queue with retries + 1, or give up once the
\* retries are spent (the exception is then final for this Task id)
retry(j) ==
  IF j.retries + 1 > max_retries
    THEN jobs \ {j}
    ELSE Replace(j, [NewJob(j.kind, j.id) EXCEPT !.retries = j.retries + 1,
                                                 !.delivery = j.delivery])

\* the not-found branch answered by scheduling a retry
task_not_found_retry(j) == retry(j)

\* "if not task: logger.error(...); return {'status': 'error', ...}": the
\* message is consumed and nothing else happens
task_not_found(j) == jobs \ {j}

\* one more execution of the body of task (kind, id)
Started(j) ==
  LET h == <<j.kind, j.id>> IN
  [x \in (DOMAIN runs) \cup {h} |->
     IF x = h THEN (IF h \in DOMAIN runs THEN runs[h] + 1 ELSE 1) ELSE runs[x]]

CanFail == nfail < scope.failures

CanRequest == nreq < scope.requests

DbUnchanged == UNCHANGED <<contents, downloads, subtitles, burns, watermarks>>
ApiUnchanged ==
  UNCHANGED <<pending, translations, views, nextId, nreq, resp, scope, ndup,
              scratch>>

\* ------------------------------------------ tasks.py: download_video_task
\* lines 207-226: load the task, first status write, platform re-detection
download_video_task_start(j) ==
  /\ j.kind = "download" /\ j.pc = "queued"
  /\ IF get_download_task_by_id(j.id) = {}
       THEN /\ jobs' = task_not_found(j)
            /\ UNCHANGED <<downloads, contents>>
       ELSE LET task == downloads[j.id]
                content == contents[task.content]
                platform == IF content.platform = "other"
                              THEN detect_platform(content.source_url)
                              ELSE content.platform
            IN IF scope.window
                 THEN /\ jobs' = Replace(j, [j EXCEPT !.pc = "write",
                                                      !.row = task])
                      /\ UNCHANGED <<downloads, contents>>
                 ELSE
               /\ downloads' = [downloads EXCEPT ![j.id] =
                      update_download_task_status(task, "downloading", 10,
                                                  NULL, NULL, None)]
               /\ contents' = [contents EXCEPT
                                 ![task.content].platform = platform]
               /\ jobs' = Replace(j, [j EXCEPT !.pc = "resolve",
                                               !.content = task.content,
                                               !.platform = platform])
  /\ UNCHANGED <<subtitles, burns, watermarks, nfail, lastWriter>>
  /\ ApiUnchanged
  /\ runs' = Started(j)

\* services.py 127-149 as called from line 213: task.save() writes every
\* field of the instance that objects.get returned when the call began; a
\* row deleted since then is re-inserted without its content (IntegrityError)
download_video_task_write(j) ==
  /\ j.kind = "download" /\ j.pc = "write"
  /\ IF j.id \in DOMAIN downloads
       THEN LET content == contents[j.row.content]
                platform == IF content.platform = "other"
                              THEN detect_platform(content.source_url)
                              ELSE content.platform
            IN /\ downloads' = [downloads EXCEPT ![j.id] =
                      update_download_task_status(j.row, "downloading", 10,
                                                  NULL, NULL, None)]
               /\ contents' = [contents EXCEPT
                                 ![j.row.content].platform = platform]
               /\ jobs' = Replace(j, [j EXCEPT !.pc = "resolve",
                                               !.content = j.row.content,
                                               !.platform = platform,
                                               !.row = NULL])
       ELSE /\ jobs' = Replace(j, Raise([j EXCEPT !.row = NULL],
                                        "IntegrityError"))
            /\ UNCHANGED <<downloads, contents>>
  /\ UNCHANGED <<subtitles, burns, watermarks, nfail, lastWriter>>
  /\ ApiUnchanged
  /\ UNCHANGED runs

\* lines 230-243: resolve the remote URL, then status processing / 30
download_video_task_resolve(j) ==
  /\ j.kind = "download" /\ j.pc = "resolve"
  /\ \/ /\ j.platform \notin {"linkedin", "instagram", "youtube"}
        /\ jobs' = Replace(j, Raise(j, "Unsupported platform"))
        /\ UNCHANGED <<downloads, nfail>>
     \/ /\ j.platform \in {"linkedin", "instagram", "youtube"}
        /\ CanFail
        /\ nfail' = nfail + 1
        /\ jobs' = Replace(j, Raise(j, "resolution failed"))
        /\ UNCHANGED downloads
     \/ /\ j.platform \in {"linkedin", "instagram", "youtube"}
        /\ UNCHANGED nfail
        /\ IF j.id \in DOMAIN downloads
             THEN /\ downloads' = [downloads EXCEPT ![j.id] =
                         update_download_task_status(downloads[j.id],
                             "processing", 30, NULL, NULL, None)]
                  /\ jobs' = Replace(j, Step(j, "extract"))
             ELSE /\ jobs' = Replace(j, Raise(j, "DoesNotExist"))
                  /\ UNCHANGED downloads
  /\ UNCHANGED <<contents, subtitles, burns, watermarks, lastWriter>>
  /\ ApiUnchanged
  /\ UNCHANGED runs

\* lines 245-266: pick the download URL, then status downloading / 50
download_video_task_extract(j) ==
  /\ j.kind = "download" /\ j.pc = "extract"
  /\ \/ /\ CanFail
        /\ nfail' = nfail + 1
        /\ jobs' = Replace(j, Raise(j, "No download URL found in response"))
        /\ UNCHANGED downloads
     \/ /\ UNCHANGED nfail
        /\ IF j.id \in DOMAIN downloads
             THEN /\ downloads' = [downloads EXCEPT ![j.id] =
                         update_download_task_status(downloads[j.id],
                             "downloading", 50, NULL, "url", None)]
                  /\ jobs' = Replace(j, Step(j, "fetch"))
             ELSE /\ jobs' = Replace(j, Raise(j, "DoesNotExist"))
                  /\ UNCHANGED downloads
  /\ UNCHANGED <<contents, subtitles, burns, watermarks, lastWriter>>
  /\ ApiUnchanged
  /\ UNCHANGED runs

\* lines 268-278: stream the file, then publish it as the current file
download_video_task_fetch(j) ==
  /\ j.kind = "download" /\ j.pc = "fetch"
  /\ \/ /\ CanFail
        /\ nfail' = nfail + 1
        /\ jobs' = Replace(j, Raise(j, "download failed"))
        /\ UNCHANGED <<contents, lastWriter>>
     \/ /\ UNCHANGED nfail
        /\ IF j.content \in DOMAIN contents
             THEN /\ contents' = [contents EXCEPT ![j.content] =
                         update_content_file_path(contents[j.content],
                                                  DownloadPath(j.content))]
                  /\ lastWriter' = [kind |-> j.kind, id |-> j.id]
                  /\ jobs' = Replace(j, Step(j, "complete"))
             ELSE /\ jobs' = Replace(j, Raise(j, "DoesNotExist"))
                  /\ UNCHANGED <<contents, lastWriter>>
  /\ UNCHANGED <<downloads, subtitles, burns, watermarks>>
  /\ ApiUnchanged
  /\ UNCHANGED runs

\* lines 280-294: status completed / 100
download_video_task_complete(j) ==
  /\ j.kind = "download" /\ j.pc = "complete"
  /\ IF j.id \in DOMAIN downloads
       THEN /\ downloads' = [downloads EXCEPT ![j.id] =
                   update_download_task_status(downloads[j.id],
                       "completed", 100, NULL, NULL, 1)]
            /\ jobs' = jobs \ {j}
       ELSE /\ jobs' = Replace(j, Raise(j, "DoesNotExist"))
            /\ UNCHANGED downloads
  /\ UNCHANGED <<contents, subtitles, burns, watermarks, nfail, lastWriter>>
  /\ ApiUnchanged
  /\ UNCHANGED runs

\* lines 296-303: record the failure; a missing row raises out of the task
download_video_task_except(j) ==
  /\ j.kind = "download" /\ j.pc = "except"
  /\ IF j.id \in DOMAIN downloads
       THEN /\ downloads' = [downloads EXCEPT ![j.id] =
                   update_download_task_status(downloads[j.id],
                       "failed", None, j.exc, NULL, None)]
            /\ jobs' = Replace(j, Step(j, "retry"))
       ELSE /\ jobs' = jobs \ {j}
            /\ UNCHANGED downloads
  /\ UNCHANGED <<contents, subtitles, burns, watermarks, nfail, lastWriter>>
  /\ ApiUnchanged
  /\ UNCHANGED runs

\* lines 305-313: self.retry(exc=e)
download_video_task_retry(j) ==
  /\ j.kind = "download" /\ j.pc = "retry"
  /\ jobs' = retry(j)
  /\ DbUnchanged /\ ApiUnchanged /\ UNCHANGED <<nfail, lastWriter>>
  /\ UNCHANGED runs

\* ------------------------------------------------------ database schema
\* content declared as a ForeignKey: any number of rows per content
DownloadSlotFree_foreign_key(cid) == cid \in Nat

\* VideoDownloadTask.content is a OneToOneField: no second row per content
DownloadSlotFree(cid) ==
  \A d \in DOMAIN downloads : downloads[d].content # cid

\* Subtitle.Meta.unique_together = ['content', 'language']
SubtitleSlotFree(cid, language) == get_subtitle_by_content(cid, language) = {}

\* on_delete=CASCADE from Subtitle to its burn tasks
BurnsOf(sids) == {b \in DOMAIN burns : burns[b].subtitle \in sids}

\* The response is recorded only in the behaviours that observe responses.
NoError == << >>

Response(op, code) ==
  IF scope.observe THEN [op |-> op, code |-> code, error |-> NoError] ELSE resp

\* Response({"error": str(e)}, status=...): the message as its fixed text
\* followed by the values formatted into it
Refusal(op, code, error) ==
  IF scope.observe THEN [op |-> op, code |-> code, error |-> error] ELSE resp

Handle(kind, id) == [kind |-> kind, id |-> id]

\* celery_task = task.delay(id); row.task_id = celery_task.id;
\* row.save(update_fields=['task_id']).  Where the window between the
\* enqueue and that save is explored the write is left to save_task_id;
\* elsewhere the two statements run without another process in between.
Enqueued(row, id) ==
  IF scope.window THEN row ELSE [row EXCEPT !.task_id = id]

AwaitSave(kind, id) ==
  IF scope.window THEN pending \cup {Handle(kind, id)} ELSE pending

\* ------------------------------------------------- services: coordinator
\* services.py 79-97: insert the row (subject to the OneToOne constraint)
\* and enqueue; the task_id write of lines 99-100 is save_task_id below
create_video_download_task(cid, tid) ==
  IF DownloadSlotFree(cid)
    THEN /\ downloads' = Insert(downloads, tid,
                                Enqueued(NewVideoDownloadTask(cid), tid))
         /\ jobs' = delay("download", tid)
         /\ pending' = AwaitSave("download", tid)
    ELSE UNCHANGED <<downloads, jobs, pending>>      \* IntegrityError

create_content_from_search_result(link) ==
  LET content_info == detect_content_info(link)
      cid == nextId.content
  IN /\ contents' = Insert(contents, cid, NewContent(link, content_info))
     /\ IF content_info.content_type = "video"
          THEN /\ create_video_download_task(cid, nextId.download)
               /\ nextId' = [nextId EXCEPT !.content = @ + 1,
                                           !.download = @ + 1]
          ELSE /\ UNCHANGED <<downloads, jobs, pending>>
               /\ nextId' = [nextId EXCEPT !.content = @ + 1]

\* views.py 72-118
ContentCreateView_post(link) ==
  /\ IF contents # EmptyTable
       THEN /\ resp' = Refusal("content_create", 400,
                                <<"Content already exists for this project.">>)
            /\ UNCHANGED <<contents, downloads, jobs, pending, nextId, nreq>>
       ELSE /\ CanRequest /\ nextId.content <= MaxContents
            /\ nreq' = nreq + 1
            /\ create_content_from_search_result(link)
            /\ resp' = Response("content_create", 201)
  /\ UNCHANGED <<subtitles, burns, watermarks, translations, views, nfail,
                 lastWriter, scope, ndup, scratch>>
  /\ UNCHANGED runs

\* create_video_download_task called for an existing content
\* (services.py 79-102); the function itself checks nothing about the content
CreateDownload(cid) ==
  /\ cid \in DOMAIN contents
  /\ create_video_download_task(cid, nextId.download)
  /\ IF DownloadSlotFree(cid)
       THEN /\ CanRequest
            /\ nreq' = nreq + 1
            /\ nextId' = [nextId EXCEPT !.download = @ + 1]
            /\ resp' = Response("create_download", 201)
       ELSE /\ resp' = Refusal("create_download", 500, <<"IntegrityError">>)
            /\ UNCHANGED <<nextId, nreq>>
  /\ UNCHANGED <<contents, subtitles, burns, watermarks, translations, views, nfail,
                 lastWriter, scope, ndup, scratch>>
  /\ UNCHANGED runs

\* task.task_id = celery_task.id; task.save(update_fields=['task_id'])
\* (services.py 99-100, 224-225, 409-410, 499-500); a vanished row makes
\* the save raise and nothing is written
save_task_id(p) ==
  /\ p \in pending
  /\ pending' = pending \ {p}
  /\ downloads' = IF p.kind = "download" /\ p.id \in DOMAIN downloads
                    THEN [downloads EXCEPT ![p.id].task_id = p.id]
                    ELSE downloads
  /\ subtitles' = IF p.kind = "subtitle" /\ p.id \in DOMAIN subtitles
                    THEN [subtitles EXCEPT ![p.id].task_id = p.id]
                    ELSE subtitles
  /\ burns' = IF p.kind = "burn" /\ p.id \in DOMAIN burns
                THEN [burns EXCEPT ![p.id].task_id = p.id]
                ELSE burns
  /\ watermarks' = IF p.kind = "watermark" /\ p.id \in DOMAIN watermarks
                     THEN [watermarks EXCEPT ![p.id].task_id = p.id]
                     ELSE watermarks
  /\ UNCHANGED <<contents, jobs, translations, views, nextId, nreq, nfail,
                 lastWriter, resp, scope, ndup, scratch>>
  /\ UNCHANGED runs

\* services.py 177-192 behind views.py 222-241: content.delete() cascades
\* to the download task, the watermark tasks, the subtitles and their burns
delete_content(cid) ==
  LET sids == {s \in DOMAIN subtitles : subtitles[s].content = cid} IN
  /\ contents' = Remove(contents, {cid})
  /\ downloads' = Remove(downloads,
        {d \in DOMAIN downloads : downloads[d].content = cid})
  /\ watermarks' = Remove(watermarks,
        {w \in DOMAIN watermarks : watermarks[w].content = cid})
  /\ subtitles' = Remove(subtitles, sids)
  /\ burns' = Remove(burns, BurnsOf(sids))

ContentDeleteView_delete(cid) ==
  /\ CanRequest
  /\ cid \in DOMAIN contents
  /\ nreq' = nreq + 1
  /\ delete_content(cid)
  /\ resp' = Response("content_delete", 204)
  /\ UNCHANGED <<jobs, pending, translations, views, nextId, nfail, lastWriter,
                 scope, ndup, scratch>>
  /\ UNCHANGED runs

\* services.py 455-468: subtitle.delete() cascades to its burn tasks
delete_subtitle(sid) ==
  /\ subtitles' = Remove(subtitles, {sid})
  /\ burns' = Remove(burns, BurnsOf({sid}))

\* views.py 348-374
SubtitleDeleteView_delete(sid) ==
  /\ CanRequest
  /\ sid \in DOMAIN subtitles
  /\ nreq' = nreq + 1
  /\ delete_subtitle(sid)
  /\ resp' = Response("subtitle_delete", 204)
  /\ UNCHANGED <<contents, downloads, watermarks, jobs, pending, translations, views,
                 nextId, nfail, lastWriter, scope, ndup, scratch>>
  /\ UNCHANGED runs

\* The file check made for instagram only
SubtitlePrecondition_instagram_only(content) ==
  ~(content.platform = "instagram" /\ content.file_path = NoFile)

\* Generation accepted whether or not the video file is there
SubtitlePrecondition_no_file_check(content) == content.content_type = "video"

\* services.py 209-211: the precondition of create_subtitle_generation_task
SubtitlePrecondition(content) ==
  ~(content.platform \in {"instagram", "linkedin"} /\ content.file_path = NoFile)

\* services.py 195-222 on the Subtitle table `subs` (the table as the view
\* left it), for the Content instance `content` the caller holds (row cid):
\* ValueError, or insert Subtitle(pending) and enqueue
create_subtitle_generation_task(subs, cid, content, language) ==
  LET sid == nextId.subtitle IN
  IF ~SubtitlePrecondition(content)
    THEN /\ subtitles' = subs
         /\ resp' = Refusal("subtitle_generate", 400,
              <<"Video must be downloaded before generating subtitles for",
                content.platform>>)
         /\ UNCHANGED <<jobs, pending, nextId>>
    ELSE /\ subtitles' = Insert(subs, sid,
                  Enqueued(NewSubtitle(cid, language, "pending", NULL), sid))
         /\ jobs' = delay("subtitle", sid)
         /\ pending' = AwaitSave("subtitle", sid)
         /\ nextId' = [nextId EXCEPT !.subtitle = @ + 1]
         /\ resp' = Response("subtitle_generate", 201)

\* A completed subtitle regenerated on request as well
Replaceable_when_done(subtitle) == subtitle.status \in {"failed", "completed"}

\* views.py 276 and 283: the existing subtitle the view deletes and replaces
Replaceable(subtitle) == subtitle.status = "failed"

\* views.py 253-301
SubtitleGenerateView_post(cid) ==
  LET content == contents[cid]
      existing == get_subtitle_by_content(cid, "original")
      failed == {s \in existing : Replaceable(subtitles[s])}
  IN
  /\ cid \in DOMAIN contents
  /\ IF content.content_type # "video" \/ existing # failed
       THEN /\ resp' = Refusal("subtitle_generate", 400,
                         IF content.content_type # "video"
                           THEN <<"Content is not a video.">>
                           ELSE <<"Subtitle already exists for this content.">>)
            /\ UNCHANGED <<subtitles, burns, jobs, pending, nextId, nreq>>
       ELSE /\ CanRequest
            /\ nreq' = nreq + 1
            /\ burns' = Remove(burns, BurnsOf(failed))
            /\ create_subtitle_generation_task(Remove(subtitles, failed),
                                               cid, content, "original")
  /\ UNCHANGED <<contents, downloads, watermarks, translations, views, nfail,
                 lastWriter, scope, ndup, scratch>>
  /\ UNCHANGED runs

\* content declared without a database constraint: any value is accepted
OwnerExists_unchecked(cid) == cid \in Nat

\* models.py 107-111: content = ForeignKey(Content, on_delete=CASCADE); an
\* INSERT naming a deleted Content raises IntegrityError
OwnerExists(cid) == cid \in DOMAIN contents

\* views.py 254-266: the view loads the project and its Content; the
\* instance it holds from here on is the row as it was read now
SubtitleGenerateView_get_content(cid) ==
  /\ cid \in DOMAIN contents
  /\ CanRequest
  /\ nreq' = nreq + 1
  /\ views' = views \cup {[content |-> cid, seen |-> contents[cid],
                            request |-> nreq + 1]}
  /\ DbUnchanged
  /\ UNCHANGED <<jobs, pending, translations, nextId, nfail, lastWriter, resp,
                 scope, ndup, scratch>>
  /\ UNCHANGED runs

\* views.py 268-301 for a view that holds the Content instance v.seen: the
\* Subtitle table is read now, the preconditions are those of the instance;
\* an INSERT for a Content deleted since then raises IntegrityError
SubtitleGenerateView_post_continue(v) ==
  LET cid == v.content
      content == v.seen
      existing == get_subtitle_by_content(cid, "original")
      failed == {s \in existing : Replaceable(subtitles[s])}
  IN
  /\ v \in views
  /\ views' = views \ {v}
  /\ IF content.content_type # "video" \/ existing # failed
       THEN /\ resp' = Refusal("subtitle_generate", 400,
                         IF content.content_type # "video"
                           THEN <<"Content is not a video.">>
                           ELSE <<"Subtitle already exists for this content.">>)
            /\ UNCHANGED <<subtitles, burns, jobs, pending, nextId>>
       ELSE IF SubtitlePrecondition(content) /\ ~OwnerExists(cid)
              THEN /\ resp' = Refusal("subtitle_generate", 500,
                                      <<"IntegrityError">>)
                   /\ UNCHANGED <<subtitles, burns, jobs, pending, nextId>>
              ELSE /\ burns' = Remove(burns, BurnsOf(failed))
                   /\ create_subtitle_generation_task(
                          Remove(subtitles, failed), cid, content, "original")
  /\ UNCHANGED <<contents, downloads, watermarks, translations, nreq, nfail,
                 lastWriter, scope, ndup, scratch>>
  /\ UNCHANGED runs

\* ------------------------------ services: translate_subtitle_synchronous
\* lines 287-291, with the first check forgotten for a started generation
TranslatePrecondition_not_pending(source_subtitle) ==
  source_subtitle.status # "pending"

\* lines 287-291: the source must be completed and have text
TranslatePrecondition(source_subtitle) ==
  /\ source_subtitle.status = "completed"
  /\ source_subtitle.subtitle_text \notin {NULL, ""}

\* lines 287-301: the checks, up to the decision to reuse or to create
translate_subtitle_synchronous_check(sid, target_language) ==
  LET source_subtitle == subtitles[sid]
      existing == get_subtitle_by_content(source_subtitle.content,
                                          target_language)
  IN
  /\ sid \in DOMAIN subtitles
  /\ IF \/ ~TranslatePrecondition(source_subtitle)
        \/ \E e \in existing : subtitles[e].status # "failed"
       THEN /\ resp' = Refusal("subtitle_translate", 400,
                 IF source_subtitle.status # "completed"
                   THEN <<"Source subtitle must be completed before translation">>
                 ELSE IF ~TranslatePrecondition(source_subtitle)
                   THEN <<"Source subtitle has no text to translate">>
                 ELSE <<"Subtitle already exists for this content in",
                        target_language>>)
            /\ UNCHANGED <<translations, nreq>>
       ELSE /\ CanRequest
            /\ nreq' = nreq + 1
            /\ translations' = translations \cup
                 {[source |-> sid,
                   content |-> source_subtitle.content,
                   language |-> target_language,
                   existing |-> IF existing = {} THEN 0
                                ELSE CHOOSE e \in existing : TRUE,
                   target |-> 0, pc |-> "write", request |-> nreq + 1]}
            /\ UNCHANGED resp
  /\ DbUnchanged
  /\ UNCHANGED <<jobs, pending, nextId, nfail, lastWriter, scope, ndup, scratch,
                 views>>
  /\ UNCHANGED runs

\* lines 303-319: reset the failed row for the retry, or insert a new row
translate_subtitle_synchronous_write(t) ==
  /\ t \in translations /\ t.pc = "write"
  /\ IF t.existing # 0
       THEN IF t.existing \in DOMAIN subtitles
              THEN /\ subtitles' = [subtitles EXCEPT ![t.existing] =
                          [@ EXCEPT !.status = "generating",
                                    !.error_message = NULL,
                                    !.started_at = TS]]
                   /\ translations' = (translations \ {t}) \cup
                        {[t EXCEPT !.pc = "call", !.target = t.existing]}
                   /\ UNCHANGED <<nextId, resp>>
              ELSE /\ translations' = translations \ {t}   \* DatabaseError
                   /\ resp' = Refusal("subtitle_translate", 500, <<"Translation failed">>)
                   /\ UNCHANGED <<subtitles, nextId>>
       ELSE IF OwnerExists(t.content)
               /\ SubtitleSlotFree(t.content, t.language)
              THEN /\ subtitles' = Insert(subtitles, nextId.subtitle,
                          NewSubtitle(t.content, t.language, "generating", TS))
                   /\ nextId' = [nextId EXCEPT !.subtitle = @ + 1]
                   /\ translations' = (translations \ {t}) \cup
                        {[t EXCEPT !.pc = "call", !.target = nextId.subtitle]}
                   /\ UNCHANGED resp
              ELSE /\ translations' = translations \ {t}   \* IntegrityError
                   /\ resp' = Refusal("subtitle_translate", 500, <<"Translation failed">>)
                   /\ UNCHANGED <<subtitles, nextId>>
  /\ UNCHANGED <<contents, downloads, burns, watermarks, jobs, pending, nreq,
                 nfail, lastWriter, scope, ndup, scratch, views>>
  /\ UNCHANGED runs

\* lines 367-370, with the status left as it was
mark_failed_message_only(subtitle) ==
  [subtitle EXCEPT !.error_message = "translation failed"]

\* lines 367-370: the except handler's save(update_fields=...)
mark_failed(subtitle) ==
  [subtitle EXCEPT !.status = "failed",
                   !.error_message = "translation failed",
                   !.completed_at = TS]

\* lines 321-373: the Translator call and the final save(update_fields=...)
translate_subtitle_synchronous_finish(t) ==
  /\ t \in translations /\ t.pc = "call"
  /\ translations' = translations \ {t}
  /\ \/ /\ UNCHANGED nfail
        /\ IF t.target \in DOMAIN subtitles
             THEN /\ subtitles' = [subtitles EXCEPT ![t.target] =
                         [@ EXCEPT !.subtitle_text = "srt",
                                   !.status = "completed",
                                   !.completed_at = TS]]
                  /\ resp' = Response("subtitle_translate", 200)
             ELSE /\ UNCHANGED subtitles                  \* DatabaseError
                  /\ resp' = Refusal("subtitle_translate", 500, <<"Translation failed">>)
     \/ /\ CanFail
        /\ nfail' = nfail + 1
        /\ resp' = Refusal("subtitle_translate", 500, <<"Translation failed">>)
        /\ subtitles' = IF t.target \in DOMAIN subtitles
                          THEN [subtitles EXCEPT ![t.target] = mark_failed(@)]
                          ELSE subtitles
  /\ UNCHANGED <<contents, downloads, burns, watermarks, jobs, pending, nextId,
                 nreq, lastWriter, scope, ndup, scratch, views>>
  /\ UNCHANGED runs

\* --------------------------------------- tasks.py: generate_subtitle_task
\* lines 440-453: load the subtitle with its content, status generating
generate_subtitle_task_start(j) ==
  /\ j.kind = "subtitle" /\ j.pc = "queued"
  /\ IF get_subtitle_by_id(j.id) = {}
       THEN /\ jobs' = task_not_found(j)
            /\ UNCHANGED subtitles
       ELSE LET subtitle == subtitles[j.id]
                content == contents[subtitle.content]
            IN /\ subtitles' = [subtitles EXCEPT ![j.id] =
                      update_subtitle_status(subtitle, "generating", NULL, NULL)]
               /\ jobs' = Replace(j, [j EXCEPT !.pc = "generate",
                                               !.content = subtitle.content,
                                               !.platform = content.platform,
                                               !.file_path = content.file_path])
  /\ UNCHANGED <<contents, downloads, burns, watermarks, nfail, lastWriter>>
  /\ ApiUnchanged
  /\ runs' = Started(j)

\* lines 486-521: generate_content fails, or returns the text that is
\* written with status completed
transcribed(j) ==
  \/ /\ CanFail
     /\ nfail' = nfail + 1
     /\ jobs' = Replace(j, Raise(j, "transcription failed"))
     /\ UNCHANGED subtitles
  \/ /\ UNCHANGED nfail
     /\ \E subtitle_text \in {"srt", ""} :
          IF j.id \in DOMAIN subtitles
            THEN /\ subtitles' = [subtitles EXCEPT ![j.id] =
                        update_subtitle_status(subtitles[j.id],
                            "completed", subtitle_text, NULL)]
                 /\ jobs' = jobs \ {j}
            ELSE /\ jobs' = Replace(j, Raise(j, "DoesNotExist"))
                 /\ UNCHANGED subtitles

\* lines 465-482: an uploaded file is polled until it has been processed;
\* where the polling is not explored the upload is taken as processed
Polled(j) == scope.polling /\ j.platform \in {"instagram", "linkedin"}

\* lines 458-521: the Transcriber call, then status completed with the text
generate_subtitle_task_generate(j) ==
  /\ j.kind = "subtitle" /\ j.pc = "generate"
  /\ \/ /\ j.platform \in {"instagram", "linkedin"} /\ j.file_path = NoFile
        /\ jobs' = Replace(j, Raise(j, "Video file not downloaded"))
        /\ UNCHANGED <<subtitles, nfail>>
     \/ /\ j.platform \notin {"instagram", "linkedin", "youtube"}
        /\ jobs' = Replace(j, Raise(j, "Unsupported platform"))
        /\ UNCHANGED <<subtitles, nfail>>
     \/ /\ \/ j.platform \in {"instagram", "linkedin"} /\ j.file_path # NoFile
           \/ j.platform = "youtube"
        /\ IF Polled(j)
             THEN /\ jobs' = Replace(j, Step(j, "poll"))
                  /\ UNCHANGED <<subtitles, nfail>>
             ELSE transcribed(j)
  /\ UNCHANGED <<contents, downloads, burns, watermarks, lastWriter>>
  /\ ApiUnchanged
  /\ UNCHANGED runs

\* lines 479-485: while myfile.state.name == "PROCESSING": sleep(2) and
\* files.get again, for as long as that is the answer (polls is the parity
\* of the number of answers so far); FAILED raises; ACTIVE goes on to
\* generate_content
generate_subtitle_task_poll(j) ==
  /\ j.kind = "subtitle" /\ j.pc = "poll"
  /\ \/ /\ jobs' = Replace(j, [j EXCEPT !.polls = 1 - @])     \* PROCESSING
        /\ UNCHANGED <<subtitles, nfail>>
     \/ /\ CanFail                                             \* FAILED
        /\ nfail' = nfail + 1
        /\ jobs' = Replace(j, Raise(j, "File processing failed"))
        /\ UNCHANGED subtitles
     \/ transcribed(j)                                         \* ACTIVE
  /\ UNCHANGED <<contents, downloads, burns, watermarks, lastWriter>>
  /\ ApiUnchanged
  /\ UNCHANGED runs

\* lines 530-537
generate_subtitle_task_except(j) ==
  /\ j.kind = "subtitle" /\ j.pc = "except"
  /\ IF j.id \in DOMAIN subtitles
       THEN /\ subtitles' = [subtitles EXCEPT ![j.id] =
                   update_subtitle_status(subtitles[j.id], "failed", NULL, j.exc)]
            /\ jobs' = Replace(j, Step(j, "retry"))
       ELSE /\ jobs' = jobs \ {j}
            /\ UNCHANGED subtitles
  /\ UNCHANGED <<contents, downloads, burns, watermarks, nfail, lastWriter>>
  /\ ApiUnchanged
  /\ UNCHANGED runs

\* lines 539-547
generate_subtitle_task_retry(j) ==
  /\ j.kind = "subtitle" /\ j.pc = "retry"
  /\ jobs' = retry(j)
  /\ DbUnchanged /\ ApiUnchanged /\ UNCHANGED <<nfail, lastWriter>>
  /\ UNCHANGED runs

\* ------------------------------------------- services: burn and watermark
\* services.py 395-402: the preconditions of create_subtitle_burn_task
\* services.py 389-397 without the check of the video file
BurnPrecondition_no_file_check(subtitle, content) ==
  /\ subtitle.status = "completed"
  /\ subtitle.subtitle_text \notin {NULL, ""}

\* services.py 389-397: the preconditions of a burn request
BurnPrecondition(subtitle, content) ==
  /\ subtitle.status = "completed"
  /\ subtitle.subtitle_text \notin {NULL, ""}
  /\ content.file_path # NoFile

\* A creation that keeps one burn task per subtitle by replacing the others
insert_burn_task_replacing(sid, bid, row) ==
  Insert(Remove(burns, BurnsOf({sid})), bid, row)

\* services.py 404-407: SubtitleBurnTask.objects.create(subtitle=subtitle,
\* status='pending'); nothing limits the burn tasks of one subtitle
insert_burn_task(sid, bid, row) == Insert(burns, bid, row)

\* services.py 376-407 behind views.py 462-499
create_subtitle_burn_task(sid) ==
  LET subtitle == subtitles[sid]
      content == contents[subtitle.content]
      bid == nextId.burn
  IN
  /\ sid \in DOMAIN subtitles
  /\ IF ~BurnPrecondition(subtitle, content)
       THEN /\ resp' = Refusal("subtitle_burn", 400,
                 IF subtitle.status # "completed"
                   THEN <<"Subtitle must be completed before burning into video">>
                 ELSE IF subtitle.subtitle_text \in {NULL, ""}
                   THEN <<"Subtitle has no text to burn">>
                 ELSE <<"Video file must be downloaded before burning subtitles">>)
            /\ UNCHANGED <<burns, jobs, pending, nextId, nreq>>
       ELSE /\ CanRequest
            /\ nreq' = nreq + 1
            /\ burns' = insert_burn_task(sid, bid,
                                          Enqueued(NewSubtitleBurnTask(sid), bid))
            /\ jobs' = delay("burn", bid)
            /\ pending' = AwaitSave("burn", bid)
            /\ nextId' = [nextId EXCEPT !.burn = @ + 1]
            /\ resp' = Response("subtitle_burn", 201)
  /\ UNCHANGED <<contents, downloads, subtitles, watermarks, translations, views,
                 nfail, lastWriter, scope, ndup, scratch>>
  /\ UNCHANGED runs

\* A watermark request accepted for any video, downloaded or not
WatermarkPrecondition_any_video(content) == content.content_type = "video"

\* views.py 562-566 and services.py 485-492: the preconditions of a
\* watermark request
WatermarkPrecondition(content) ==
  content.content_type = "video" /\ content.file_path # NoFile

\* services.py 471-497 behind views.py 546-588
create_watermark_task(cid) ==
  LET content == contents[cid]
      wid == nextId.watermark
  IN
  /\ cid \in DOMAIN contents
  /\ IF ~WatermarkPrecondition(content)
       THEN /\ resp' = Refusal("watermark", 400,
                 IF content.content_type # "video"
                   THEN <<"Content is not a video.">>
                 ELSE <<"Video file must be downloaded before adding watermark">>)
            /\ UNCHANGED <<watermarks, jobs, pending, nextId, nreq>>
       ELSE /\ CanRequest
            /\ nreq' = nreq + 1
            /\ watermarks' = Insert(watermarks, wid,
                                    Enqueued(NewWatermarkTask(cid), wid))
            /\ jobs' = delay("watermark", wid)
            /\ pending' = AwaitSave("watermark", wid)
            /\ nextId' = [nextId EXCEPT !.watermark = @ + 1]
            /\ resp' = Response("watermark", 201)
  /\ UNCHANGED <<contents, downloads, subtitles, burns, translations, views, nfail,
                 lastWriter, scope, ndup, scratch>>
  /\ UNCHANGED runs

\* ------------------------------------------- tasks.py: burn_subtitle_task
\* lines 651-663: load the burn task with its subtitle and content
burn_subtitle_task_start(j) ==
  /\ j.kind = "burn" /\ j.pc = "queued"
  /\ IF get_burn_task_by_id(j.id) = {}
       THEN /\ jobs' = task_not_found(j)
            /\ UNCHANGED burns
       ELSE LET burn_task == burns[j.id]
                subtitle == subtitles[burn_task.subtitle]
                content == contents[subtitle.content]
            IN IF scope.window
                 THEN /\ jobs' = Replace(j, [j EXCEPT !.pc = "write",
                                               !.row = burn_task,
                                               !.content = subtitle.content,
                                               !.file_path = content.file_path,
                                               !.language = subtitle.language,
                                               !.text = subtitle.subtitle_text])
                      /\ UNCHANGED burns
                 ELSE
               /\ burns' = [burns EXCEPT ![j.id] =
                      update_burn_task_status(burn_task, "processing",
                                              NoFile, NULL)]
               /\ jobs' = Replace(j, [j EXCEPT !.pc = "run",
                                               !.content = subtitle.content,
                                               !.file_path = content.file_path,
                                               !.language = subtitle.language,
                                               !.text = subtitle.subtitle_text])
  /\ UNCHANGED <<contents, downloads, subtitles, watermarks, nfail, lastWriter>>
  /\ ApiUnchanged
  /\ runs' = Started(j)

\* services.py 433-448 as called from line 657: burn_task.save() writes
\* every field of the instance that objects.get returned when the call began
burn_subtitle_task_write(j) ==
  /\ j.kind = "burn" /\ j.pc = "write"
  /\ IF j.id \in DOMAIN burns
       THEN /\ burns' = [burns EXCEPT ![j.id] =
                   update_burn_task_status(j.row, "processing", NoFile, NULL)]
            /\ jobs' = Replace(j, [j EXCEPT !.pc = "run", !.row = NULL])
       ELSE /\ jobs' = Replace(j, Raise([j EXCEPT !.row = NULL],
                                        "IntegrityError"))
            /\ UNCHANGED burns
  /\ UNCHANGED <<contents, downloads, subtitles, watermarks, nfail, lastWriter>>
  /\ ApiUnchanged
  /\ UNCHANGED runs

\* the video the filter reads: content.file_path of the loaded task (671)
burn_input(j) == j.file_path

\* lines 662-684: the checks, then the subtitle text written to the scratch
\* file subtitles/<burn_task_id>.srt
burn_subtitle_task_run(j) ==
  /\ j.kind = "burn" /\ j.pc = "run"
  /\ \/ /\ j.file_path = NoFile
        /\ jobs' = Replace(j, Raise(j, "Video file not found"))
        /\ UNCHANGED scratch
     \/ /\ j.file_path # NoFile /\ j.text \in {NULL, ""}
        /\ jobs' = Replace(j, Raise(j, "Subtitle text is empty"))
        /\ UNCHANGED scratch
     \/ /\ j.file_path # NoFile /\ j.text \notin {NULL, ""}
        /\ scratch' = scratch \cup {j.id}
        /\ jobs' = Replace(j, Step(j, "filter"))
  /\ DbUnchanged
  /\ UNCHANGED <<pending, translations, views, nextId, nreq, resp, scope, ndup,
                 nfail, lastWriter>>
  /\ UNCHANGED runs

\* a finally clause that leaves the scratch file where it is
remove_scratch_kept(id) == scratch

\* lines 747-750: finally: os.remove(subtitle_file_path) if it exists
remove_scratch(id) == scratch \ {id}

\* lines 686-731: ffmpeg reads the video and the scratch file and writes
\* the output, which is then published as the current file; an exception
\* leaves through the finally clause
burn_subtitle_task_filter(j) ==
  /\ j.kind = "burn" /\ j.pc = "filter"
  /\ \/ /\ j.id \notin scratch                  \* the .srt is gone: ffmpeg fails
        /\ jobs' = Replace(j, Raise([j EXCEPT !.input = burn_input(j)],
                                    "ffmpeg failed"))
        /\ scratch' = remove_scratch(j.id)
        /\ UNCHANGED <<contents, nfail, lastWriter>>
     \/ /\ j.id \in scratch
        /\ CanFail
        /\ nfail' = nfail + 1
        /\ jobs' = Replace(j, Raise([j EXCEPT !.input = burn_input(j)],
                                    "ffmpeg failed"))
        /\ scratch' = remove_scratch(j.id)
        /\ UNCHANGED <<contents, lastWriter>>
     \/ /\ j.id \in scratch
        /\ UNCHANGED nfail
        /\ IF j.content \in DOMAIN contents
             THEN /\ contents' = [contents EXCEPT ![j.content] =
                         update_content_file_path(contents[j.content],
                             SubtitledPath(j.content, j.language))]
                  /\ lastWriter' = Handle(j.kind, j.id)
                  /\ jobs' = Replace(j, [j EXCEPT !.pc = "complete",
                                            !.input = burn_input(j)])
                  /\ UNCHANGED scratch
             ELSE /\ jobs' = Replace(j,
                         Raise([j EXCEPT !.input = burn_input(j)],
                               "DoesNotExist"))
                  /\ scratch' = remove_scratch(j.id)
                  /\ UNCHANGED <<contents, lastWriter>>
  /\ UNCHANGED <<downloads, subtitles, burns, watermarks>>
  /\ UNCHANGED <<pending, translations, views, nextId, nreq, resp, scope, ndup>>
  /\ UNCHANGED runs

\* lines 733-750: the completed status, then the finally clause
burn_subtitle_task_complete(j) ==
  /\ j.kind = "burn" /\ j.pc = "complete"
  /\ IF j.id \in DOMAIN burns
       THEN /\ burns' = [burns EXCEPT ![j.id] =
                   update_burn_task_status(burns[j.id], "completed",
                       SubtitledPath(j.content, j.language), NULL)]
            /\ jobs' = jobs \ {j}
       ELSE /\ jobs' = Replace(j, Raise(j, "DoesNotExist"))
            /\ UNCHANGED burns
  /\ scratch' = remove_scratch(j.id)
  /\ UNCHANGED <<contents, downloads, subtitles, watermarks, nfail, lastWriter>>
  /\ UNCHANGED <<pending, translations, views, nextId, nreq, resp, scope, ndup>>
  /\ UNCHANGED runs

\* lines 752-759
burn_subtitle_task_except(j) ==
  /\ j.kind = "burn" /\ j.pc = "except"
  /\ IF j.id \in DOMAIN burns
       THEN /\ burns' = [burns EXCEPT ![j.id] =
                   update_burn_task_status(burns[j.id], "failed", NoFile, j.exc)]
            /\ jobs' = Replace(j, Step(j, "retry"))
       ELSE /\ jobs' = jobs \ {j}
            /\ UNCHANGED burns
  /\ UNCHANGED <<contents, downloads, subtitles, watermarks, nfail, lastWriter>>
  /\ ApiUnchanged
  /\ UNCHANGED runs

\* lines 761-769
burn_subtitle_task_retry(j) ==
  /\ j.kind = "burn" /\ j.pc = "retry"
  /\ jobs' = retry(j)
  /\ DbUnchanged /\ ApiUnchanged /\ UNCHANGED <<nfail, lastWriter>>
  /\ UNCHANGED runs

\* ------------------------------------------ tasks.py: burn_watermark_task
\* lines 786-797
burn_watermark_task_start(j) ==
  /\ j.kind = "watermark" /\ j.pc = "queued"
  /\ IF get_watermark_task_by_id(j.id) = {}
       THEN /\ jobs' = task_not_found(j)
            /\ UNCHANGED watermarks
       ELSE LET watermark_task == watermarks[j.id]
                content == contents[watermark_task.content]
            IN /\ watermarks' = [watermarks EXCEPT ![j.id] =
                      update_watermark_task_status(watermark_task,
                                                   "processing", NoFile, NULL)]
               /\ jobs' = Replace(j, [j EXCEPT !.pc = "run",
                                               !.content = watermark_task.content,
                                               !.file_path = content.file_path])
  /\ UNCHANGED <<contents, downloads, subtitles, burns, nfail, lastWriter>>
  /\ ApiUnchanged
  /\ runs' = Started(j)

\* the video read afresh from the database when the filter starts
watermark_input_reread(j) ==
  IF j.content \in DOMAIN contents THEN contents[j.content].file_path
  ELSE j.file_path

\* the video the filter reads: content.file_path of the loaded task (806)
watermark_input(j) == j.file_path

\* lines 799-850
burn_watermark_task_run(j) ==
  /\ j.kind = "watermark" /\ j.pc = "run"
  /\ \/ /\ j.file_path = NoFile
        /\ jobs' = Replace(j, Raise(j, "Video file not found"))
        /\ UNCHANGED <<contents, nfail, lastWriter>>
     \/ /\ j.file_path # NoFile
        /\ \/ /\ CanFail
              /\ nfail' = nfail + 1
              /\ jobs' = Replace(j,
                     Raise([j EXCEPT !.input = watermark_input(j)],
                           "ffmpeg failed"))
              /\ UNCHANGED <<contents, lastWriter>>
           \/ /\ UNCHANGED nfail
              /\ IF j.content \in DOMAIN contents
                   THEN /\ contents' = [contents EXCEPT ![j.content] =
                               update_content_file_path(contents[j.content],
                                   WatermarkedPath(j.content))]
                        /\ lastWriter' = Handle(j.kind, j.id)
                        /\ jobs' = Replace(j, [j EXCEPT !.pc = "complete",
                                                  !.input = watermark_input(j)])
                   ELSE /\ jobs' = Replace(j,
                               Raise([j EXCEPT !.input = watermark_input(j)],
                                     "DoesNotExist"))
                        /\ UNCHANGED <<contents, lastWriter>>
  /\ UNCHANGED <<downloads, subtitles, burns, watermarks>>
  /\ ApiUnchanged
  /\ UNCHANGED runs

\* lines 852-864
burn_watermark_task_complete(j) ==
  /\ j.kind = "watermark" /\ j.pc = "complete"
  /\ IF j.id \in DOMAIN watermarks
       THEN /\ watermarks' = [watermarks EXCEPT ![j.id] =
                   update_watermark_task_status(watermarks[j.id], "completed",
                       WatermarkedPath(j.content), NULL)]
            /\ jobs' = jobs \ {j}
       ELSE /\ jobs' = Replace(j, Raise(j, "DoesNotExist"))
            /\ UNCHANGED watermarks
  /\ UNCHANGED <<contents, downloads, subtitles, burns, nfail, lastWriter>>
  /\ ApiUnchanged
  /\ UNCHANGED runs

\* lines 866-873
burn_watermark_task_except(j) ==
  /\ j.kind = "watermark" /\ j.pc = "except"
  /\ IF j.id \in DOMAIN watermarks
       THEN /\ watermarks' = [watermarks EXCEPT ![j.id] =
                   update_watermark_task_status(watermarks[j.id], "failed",
                                                NoFile, j.exc)]
            /\ jobs' = Replace(j, Step(j, "retry"))
       ELSE /\ jobs' = jobs \ {j}
            /\ UNCHANGED watermarks
  /\ UNCHANGED <<contents, downloads, subtitles, burns, nfail, lastWriter>>
  /\ ApiUnchanged
  /\ UNCHANGED runs

\* lines 875-883
burn_watermark_task_retry(j) ==
  /\ j.kind = "watermark" /\ j.pc = "retry"
  /\ jobs' = retry(j)
  /\ DbUnchanged /\ ApiUnchanged /\ UNCHANGED <<nfail, lastWriter>>
  /\ UNCHANGED runs

\* ------------------------------------------------------- specification
Empty ==
  /\ contents = EmptyTable /\ downloads = EmptyTable
  /\ subtitles = EmptyTable /\ burns = EmptyTable /\ watermarks = EmptyTable
  /\ jobs = {} /\ pending = {} /\ translations = {}
  /\ nextId = [content |-> 1, download |-> 1, subtitle |-> 1, burn |-> 1,
               watermark |-> 1]
  /\ nreq = 0 /\ nfail = 0
  /\ lastWriter = Handle("none", 0)
  /\ resp = [op |-> "none", code |-> 0, error |-> NoError]
  /\ runs = << >>
  /\ ndup = 0 /\ scratch = {} /\ views = {}

Scope(requests, failures, observe, window) ==
  [requests |-> requests, failures |-> failures, observe |-> observe,
   window |-> window, duplicates |-> 0, polling |-> FALSE]

\* The pipeline from an empty project.
Init == Empty /\ scope = Scope(MaxRequests, FewFailures, FALSE, FALSE)

\* The same with every automatic retry of one task explored.
InitRetry == Empty /\ scope = Scope(FewRequests, MaxFailures, FALSE, FALSE)

Next ==
  \/ \E link \in Links : ContentCreateView_post(link)
  \/ \E cid \in DOMAIN contents : CreateDownload(cid)
  \/ \E cid \in DOMAIN contents : ContentDeleteView_delete(cid)
  \/ \E j \in jobs : download_video_task_start(j)
  \/ \E j \in jobs : download_video_task_resolve(j)
  \/ \E j \in jobs : download_video_task_extract(j)
  \/ \E j \in jobs : download_video_task_fetch(j)
  \/ \E j \in jobs : download_video_task_complete(j)
  \/ \E j \in jobs : download_video_task_except(j)
  \/ \E j \in jobs : download_video_task_retry(j)
  \/ \E cid \in DOMAIN contents : SubtitleGenerateView_post(cid)
  \/ \E sid \in DOMAIN subtitles : SubtitleDeleteView_delete(sid)
  \/ \E sid \in DOMAIN subtitles, target_language \in Languages :
        translate_subtitle_synchronous_check(sid, target_language)
  \/ \E t \in translations : translate_subtitle_synchronous_write(t)
  \/ \E t \in translations : translate_subtitle_synchronous_finish(t)
  \/ \E j \in jobs : generate_subtitle_task_start(j)
  \/ \E j \in jobs : generate_subtitle_task_generate(j)
  \/ \E j \in jobs : generate_subtitle_task_except(j)
  \/ \E j \in jobs : generate_subtitle_task_retry(j)
  \/ \E sid \in DOMAIN subtitles : create_subtitle_burn_task(sid)
  \/ \E cid \in DOMAIN contents : create_watermark_task(cid)
  \/ \E j \in jobs : burn_subtitle_task_start(j)
  \/ \E j \in jobs : burn_subtitle_task_run(j)
  \/ \E j \in jobs : burn_subtitle_task_filter(j)
  \/ \E j \in jobs : burn_subtitle_task_complete(j)
  \/ \E j \in jobs : burn_subtitle_task_except(j)
  \/ \E j \in jobs : burn_subtitle_task_retry(j)
  \/ \E j \in jobs : burn_watermark_task_start(j)
  \/ \E j \in jobs : burn_watermark_task_run(j)
  \/ \E j \in jobs : burn_watermark_task_complete(j)
  \/ \E j \in jobs : burn_watermark_task_except(j)
  \/ \E j \in jobs : burn_watermark_task_retry(j)

\* The broker delivers a message a second time (at-least-once delivery):
\* a second copy of the message published for task (kind, id) by .delay()
duplicate_delivery(kind, id) ==
  /\ ndup < scope.duplicates
  /\ \/ <<kind, id>> \in DOMAIN runs
     \/ \E j \in jobs : j.kind = kind /\ j.id = id
  /\ jobs' = jobs \cup {[NewJob(kind, id) EXCEPT !.delivery = 2]}
  /\ ndup' = ndup + 1
  /\ DbUnchanged
  /\ UNCHANGED <<pending, translations, views, nextId, nreq, resp, scope, scratch,
                 nfail, lastWriter>>
  /\ UNCHANGED runs

Kinds == {"download", "subtitle", "burn", "watermark"}

\* The pipeline with one message delivered twice.
InitDelivery ==
  /\ Empty
  /\ scope = [Scope(FewRequests, OneFailure, FALSE, FALSE)
                EXCEPT !.duplicates = OneDuplicate]

NextDelivery ==
  \/ Next
  \/ \E kind \in Kinds : \E id \in 1..(nextId[kind] - 1) :
        duplicate_delivery(kind, id)

SpecDelivery == InitDelivery /\ [][NextDelivery]_vars

\* The window between a creation's enqueue and its task_id save.
\* The pipeline with the creation's write of task_id and the executor's
\* first status write as steps of their own.
InitWindow == Empty /\ scope = Scope(FewRequests, OneFailure, FALSE, TRUE)

NextWindow ==
  \/ Next
  \/ \E p \in pending : save_task_id(p)
  \/ \E j \in jobs : download_video_task_write(j)
  \/ \E j \in jobs : burn_subtitle_task_write(j)

SpecWindow == InitWindow /\ [][NextWindow]_vars

Spec == Init /\ [][Next]_vars

SpecRetry == InitRetry /\ [][Next]_vars

\* The pipeline with the response of every request observed.
InitApi == Empty /\ scope = Scope(MaxRequests, OneFailure, TRUE, FALSE)

SpecApi == InitApi /\ [][Next]_vars

\* The subtitle pipeline alone (creation, download, generation, translation,
\* subtitle deletion), with the requests it takes to regenerate 'original'
\* while a translation of it exists.
InitSubtitles == Empty /\ scope = Scope(ManyRequests, OneFailure, FALSE, FALSE)

NextSubtitles ==
  \/ \E link \in Links : ContentCreateView_post(link)
  \/ \E j \in jobs : download_video_task_start(j)
  \/ \E j \in jobs : download_video_task_resolve(j)
  \/ \E j \in jobs : download_video_task_extract(j)
  \/ \E j \in jobs : download_video_task_fetch(j)
  \/ \E j \in jobs : download_video_task_complete(j)
  \/ \E j \in jobs : download_video_task_except(j)
  \/ \E j \in jobs : download_video_task_retry(j)
  \/ \E cid \in DOMAIN contents : SubtitleGenerateView_post(cid)
  \/ \E sid \in DOMAIN subtitles : SubtitleDeleteView_delete(sid)
  \/ \E sid \in DOMAIN subtitles, target_language \in Languages :
        translate_subtitle_synchronous_check(sid, target_language)
  \/ \E t \in translations : translate_subtitle_synchronous_write(t)
  \/ \E t \in translations : translate_subtitle_synchronous_finish(t)
  \/ \E j \in jobs : generate_subtitle_task_start(j)
  \/ \E j \in jobs : generate_subtitle_task_generate(j)
  \/ \E j \in jobs : generate_subtitle_task_except(j)
  \/ \E j \in jobs : generate_subtitle_task_retry(j)

SpecSubtitles == InitSubtitles /\ [][NextSubtitles]_vars

\* Subtitle generation where a Subtitle disappears only by being replaced:
\* creation, download, generation with its retries, a generation message
\* delivered twice, and no deletion endpoint.
InitReplace ==
  /\ Empty
  /\ scope = [Scope(FewRequests, FewFailures, FALSE, FALSE)
               EXCEPT !.duplicates = OneDuplicate]

NextReplace ==
  \/ \E link \in Links : ContentCreateView_post(link)
  \/ \E j \in jobs : download_video_task_start(j)
  \/ \E j \in jobs : download_video_task_resolve(j)
  \/ \E j \in jobs : download_video_task_extract(j)
  \/ \E j \in jobs : download_video_task_fetch(j)
  \/ \E j \in jobs : download_video_task_complete(j)
  \/ \E j \in jobs : download_video_task_except(j)
  \/ \E j \in jobs : download_video_task_retry(j)
  \/ \E cid \in DOMAIN contents : SubtitleGenerateView_post(cid)
  \/ \E j \in jobs : generate_subtitle_task_start(j)
  \/ \E j \in jobs : generate_subtitle_task_generate(j)
  \/ \E j \in jobs : generate_subtitle_task_except(j)
  \/ \E j \in jobs : generate_subtitle_task_retry(j)
  \/ \E id \in 1..(nextId.subtitle - 1) : duplicate_delivery("subtitle", id)

SpecReplace == InitReplace /\ [][NextReplace]_vars

\* Subtitle generation with the view's read of the Content and the rest of
\* the view as two steps, every response observed.
InitView == Empty /\ scope = Scope(FewRequests, OneFailure, TRUE, FALSE)

NextView ==
  \/ \E link \in Links : ContentCreateView_post(link)
  \/ \E cid \in DOMAIN contents : ContentDeleteView_delete(cid)
  \/ \E j \in jobs : download_video_task_start(j)
  \/ \E j \in jobs : download_video_task_resolve(j)
  \/ \E j \in jobs : download_video_task_extract(j)
  \/ \E j \in jobs : download_video_task_fetch(j)
  \/ \E j \in jobs : download_video_task_complete(j)
  \/ \E j \in jobs : download_video_task_except(j)
  \/ \E j \in jobs : download_video_task_retry(j)
  \/ \E cid \in DOMAIN contents : SubtitleGenerateView_get_content(cid)
  \/ \E v \in views : SubtitleGenerateView_post_continue(v)
  \/ \E j \in jobs : generate_subtitle_task_start(j)
  \/ \E j \in jobs : generate_subtitle_task_generate(j)
  \/ \E j \in jobs : generate_subtitle_task_except(j)
  \/ \E j \in jobs : generate_subtitle_task_retry(j)

SpecView == InitView /\ [][NextView]_vars

\* One step of the worker that executes job j.
TaskStep(j) ==
  \/ download_video_task_start(j)
  \/ download_video_task_resolve(j)
  \/ download_video_task_extract(j)
  \/ download_video_task_fetch(j)
  \/ download_video_task_complete(j)
  \/ download_video_task_except(j)
  \/ download_video_task_retry(j)
  \/ generate_subtitle_task_start(j)
  \/ generate_subtitle_task_generate(j)
  \/ generate_subtitle_task_poll(j)
  \/ generate_subtitle_task_except(j)
  \/ generate_subtitle_task_retry(j)
  \/ burn_subtitle_task_start(j)
  \/ burn_subtitle_task_run(j)
  \/ burn_subtitle_task_filter(j)
  \/ burn_subtitle_task_complete(j)
  \/ burn_subtitle_task_except(j)
  \/ burn_subtitle_task_retry(j)
  \/ burn_watermark_task_start(j)
  \/ burn_watermark_task_run(j)
  \/ burn_watermark_task_complete(j)
  \/ burn_watermark_task_except(j)
  \/ burn_watermark_task_retry(j)

\* The pipeline with the polling of the uploaded file explored, under weak
\* fairness of the workers: a job that can take a step is not left waiting
\* for ever, and every call made in a step returns.
InitLive ==
  /\ Empty
  /\ scope = [Scope(FewRequests, OneFailure, FALSE, FALSE)
               EXCEPT !.polling = TRUE]

NextLive == Next \/ \E j \in jobs : generate_subtitle_task_poll(j)

Fairness ==
  \A kind \in Kinds : \A id \in 1..FewRequests :
     WF_vars(\E j \in jobs : j.kind = kind /\ j.id = id /\ TaskStep(j))

SpecLive == InitLive /\ [][NextLive]_vars /\ Fairness

\* The classifier on links assembled from a few pieces: domain names in
\* mixed case, names split over two pieces, and near misses.
Fragments ==
  { <<"y", "o", "u", "t", "u", "b", "e", ".", "c", "o", "m">>,
    <<"/", "Y", "o", "u", "T", "u">>,
    <<"b", "e", "/">>,
    <<"I", "n", "s", "t", "a", "g", "r", ".", "A", "M">>,
    <<"i", "n", "s", "t", "a", "g", "r", "a", "m", ".", "c", "o">>,
    <<"m", "/">>,
    <<"L", "i", "n", "k", "e", "d", "I", "n", ".", "c", "o", "m">>,
    <<"e", "x", "a", "m", "p", "l", "e", ".", "o", "r", "g">> }

RECURSIVE UrlsOf(_)
UrlsOf(parts) ==
  IF parts = 1 THEN Fragments
  ELSE {u \o f : u \in UrlsOf(parts - 1), f \in Fragments}

Urls == UNION {UrlsOf(parts) : parts \in 1..MaxParts}

InitClassifier == Empty /\ scope = Scope(FewRequests, OneFailure, FALSE, FALSE)

NextClassifier ==
  \/ \E link \in Urls : ContentCreateView_post(link)
  \/ \E cid \in DOMAIN contents : CreateDownload(cid)
  \/ \E j \in jobs : download_video_task_start(j)
  \/ \E cid \in DOMAIN contents : ContentDeleteView_delete(cid)

SpecClassifier == InitClassifier /\ [][NextClassifier]_vars

\* The subtitle pipeline with a failed translation and a second failure.
InitTranslate == Empty /\ scope = Scope(ManyRequests, FewFailures, FALSE, FALSE)

SpecTranslate == InitTranslate /\ [][NextSubtitles]_vars

\* ============================================================ properties
\* Rows of a table that exist before and after a step
Kept(tbl, tbl2) == (DOMAIN tbl) \cap (DOMAIN tbl2)

Phase(task) == <<task.status, task.progress>>

\* the writes of one execution of download_video_task, in program order
DownloadPhases ==
  << <<"pending", 0>>, <<"downloading", 10>>, <<"processing", 30>>,
     <<"downloading", 50>>, <<"completed", 100>> >>

NextPhase(a, b) ==
  \E i \in 1..(Len(DownloadPhases) - 1) :
     DownloadPhases[i] = a /\ DownloadPhases[i + 1] = b

Rank(status) ==
  CASE status = "pending" -> 0
    [] status = "downloading" -> 1
    [] status = "processing" -> 2
    [] status = "completed" -> 3
    [] OTHER -> 4

\* C1 (as amended): within one execution of the Download executor the
\* status moves pending -> downloading (10) -> processing (30) ->
\* downloading (50) -> completed (100), one write at a time: the executor
\* returns to downloading once the remote URL is resolved. failed is
\* entered only from a running status (downloading or processing) and
\* keeps the progress; the only write that leaves failed is the first write
\* of the next automatic execution.
C1_StatusSequence ==
  [][\A d \in Kept(downloads, downloads') :
       LET a == downloads[d]
           b == downloads'[d]
       IN Phase(a) # Phase(b) =>
            \/ NextPhase(Phase(a), Phase(b))
            \/ /\ a.status \in {"downloading", "processing"}
               /\ b.status = "failed" /\ b.progress = a.progress
            \/ /\ a.status = "failed"
               /\ Phase(b) = <<"downloading", 10>>]_vars

\* C1 witness: a Download Task back in downloading, at 50, after processing
C1_Witness ==
  \E d \in DOMAIN downloads :
     /\ Phase(downloads[d]) = <<"downloading", 50>>
     /\ \E j \in jobs : j.kind = "download" /\ j.id = d /\ j.pc = "fetch"

\* C1 as stated: the status of a task that has not failed never moves to a
\* lower position of pending -> downloading -> processing -> completed
C1_AsStated ==
  [][\A d \in Kept(downloads, downloads') :
       LET a == downloads[d].status
           b == downloads'[d].status
       IN a # "failed" => (b = "failed" \/ Rank(b) >= Rank(a))]_vars

\* completed_at is set exactly on the rows whose status is terminal
Settled(row) ==
  (row.completed_at # NULL) <=> (row.status \in {"completed", "failed"})

\* C2: in every reachable state of every Download, SubtitleBurn and
\* WatermarkBurn Task and of every Subtitle, completed_at is set if and
\* only if the status is completed or failed
C2_CompletedAtIffTerminal ==
  /\ \A d \in DOMAIN downloads : Settled(downloads[d])
  /\ \A x \in DOMAIN subtitles : Settled(subtitles[x])
  /\ \A b \in DOMAIN burns : Settled(burns[b])
  /\ \A w \in DOMAIN watermarks : Settled(watermarks[w])

Table(kind) ==
  CASE kind = "download" -> downloads
    [] kind = "subtitle" -> subtitles
    [] kind = "burn" -> burns
    [] kind = "watermark" -> watermarks

InFlight(h) == \E j \in jobs : <<j.kind, j.id>> = h

\* the body of task h has run max_retries + 1 times, the last run failed
\* and Celery holds no message for it any more
Exhausted(h) ==
  /\ h \in DOMAIN runs /\ runs[h] = max_retries + 1
  /\ ~InFlight(h)
  /\ h[2] \in DOMAIN Table(h[1])
  /\ Table(h[1])[h[2]].status = "failed"

\* the same tables, one step later
TableAfter(kind) ==
  CASE kind = "download" -> downloads'
    [] kind = "subtitle" -> subtitles'
    [] kind = "burn" -> burns'
    [] kind = "watermark" -> watermarks'

\* C3: for each of the four queued task kinds the body for one Task id
\* runs at most 4 times (the first run plus 3 retries); after the last
\* failed run the record stays failed with its error_message and the Task
\* id is never executed automatically again (only an explicit translate
\* request, which reuses a failed Subtitle, rewrites such a record).
C3_AtMostFourRuns ==
  /\ [](\A h \in DOMAIN runs : runs[h] <= max_retries + 1)
  /\ [][\A h \in DOMAIN runs :
          Exhausted(h) =>
            /\ runs'[h] = runs[h]
            /\ \A j \in jobs' : <<j.kind, j.id>> # h
            /\ h[2] \in DOMAIN TableAfter(h[1]) =>
                 \/ TableAfter(h[1])[h[2]] = Table(h[1])[h[2]]
                 \/ h[1] = "subtitle" /\ translations' # translations]_vars

\* C3 witness: a burn task left failed after its fourth run
C3_Witness ==
  \E b \in DOMAIN burns :
     /\ Exhausted(<<"burn", b>>)
     /\ burns[b].error_message # NULL

\* the record a job works on, as a set (empty once the row is deleted)
RecordOf(j) ==
  IF j.id \in DOMAIN Table(j.kind) THEN {Table(j.kind)[j.id]} ELSE {}

\* C4: whenever an execution raises, the record is persisted with status
\* failed, error_message equal to the exception text and completed_at set
\* before the retry is scheduled or the retries are declared exhausted: at
\* the call of self.retry the record never shows a pending or running
\* status
C4_FailedBeforeRetry ==
  \A j \in jobs :
     j.pc = "retry" =>
       \A r \in RecordOf(j) :
          /\ r.status = "failed"
          /\ r.error_message = j.exc
          /\ r.completed_at # NULL

\* C5: over any sequence of executor steps on one Download Task, automatic
\* retries included, progress never takes a value lower than one it held
\* earlier
C5_ProgressNeverDecreases ==
  [][\A d \in Kept(downloads, downloads') :
       downloads'[d].progress >= downloads[d].progress]_vars

\* the content a burn task works on, through its subtitle
ContentOfBurn(b) == subtitles[burns[b].subtitle].content

\* C6: in every reachable state, if a SubtitleBurn Task or a WatermarkBurn
\* Task record exists then the owning content's file_path is not null; and
\* a file_path, once set, never returns to null
C6_BurnNeedsFile ==
  /\ [](/\ \A b \in DOMAIN burns :
             /\ burns[b].subtitle \in DOMAIN subtitles
             /\ ContentOfBurn(b) \in DOMAIN contents
             /\ contents[ContentOfBurn(b)].file_path # NoFile
        /\ \A w \in DOMAIN watermarks :
             /\ watermarks[w].content \in DOMAIN contents
             /\ contents[watermarks[w].content].file_path # NoFile)
  /\ [][\A c \in Kept(contents, contents') :
          contents[c].file_path # NoFile => contents'[c].file_path # NoFile]_vars

\* C6 witness: a burn task and a watermark task of one content, both created
C6_Witness ==
  \E b \in DOMAIN burns, w \in DOMAIN watermarks :
     /\ ContentOfBurn(b) = watermarks[w].content
     /\ contents[watermarks[w].content].file_path # NoFile

NeedsFile(cid) == contents[cid].platform \in {"instagram", "linkedin"}

DownloadsOf(cid) == {d \in DOMAIN downloads : downloads[d].content = cid}

\* Subtitles inserted by this step as pending, i.e. by CreateSubtitle
CreatedSubtitles ==
  {x \in (DOMAIN subtitles') \ (DOMAIN subtitles) :
     subtitles'[x].status = "pending"}

LiveBurnsOf(sid) ==
  {b \in DOMAIN burns : burns[b].subtitle = sid /\ burns[b].status # "failed"}

LiveWatermarksOf(cid) ==
  {w \in DOMAIN watermarks :
     watermarks[w].content = cid /\ watermarks[w].status # "failed"}

C9_OnePerContent ==
  /\ \A c \in DOMAIN contents : Cardinality(DownloadsOf(c)) <= 1
  /\ \A c \in DOMAIN contents, l \in Languages :
        Cardinality(get_subtitle_by_content(c, l)) <= 1

\* C9 witness: a repeated CreateDownload has just been refused while two
\* translate requests for one language race, one having inserted its
\* Subtitle and the other about to insert
C9_Witness ==
  /\ resp.op = "create_download" /\ resp.code = 500
  /\ \E c \in DOMAIN contents : Cardinality(DownloadsOf(c)) = 1
  /\ \E t \in translations, u \in translations :
        /\ t.pc = "call" /\ u.pc = "write" /\ u.existing = 0
        /\ t.content = u.content /\ t.language = u.language
        /\ t.target \in get_subtitle_by_content(u.content, u.language)

\* the executions of burn tasks and watermark tasks that have written, or
\* are about to write, the current file of content c
Running(kind, c) ==
  {j \in jobs : j.kind = kind /\ j.content = c /\ j.pc \in {"run", "filter"}}

Overwrote(kind, c) ==
  {j \in jobs : j.kind = kind /\ j.content = c /\ j.pc = "complete"}

OutputOf(j) ==
  IF j.kind = "burn" THEN SubtitledPath(j.content, j.language)
  ELSE WatermarkedPath(j.content)

\* C10: when a SubtitleBurn and a WatermarkBurn of one content run
\* concurrently, each uses as input the file_path it read at its own start
\* whatever the other has written since, neither waits for the other (both
\* are enabled while both run), and after an overwrite the content's
\* file_path is the output path of the executor that overwrote last
C10_LastWriterWins ==
  \A c \in DOMAIN contents :
     /\ \A j \in Overwrote("burn", c) \cup Overwrote("watermark", c) :
           /\ j.input = j.file_path
           /\ lastWriter = Handle(j.kind, j.id) =>
                contents[c].file_path = OutputOf(j)
     /\ \A b \in Running("burn", c), w \in Running("watermark", c) :
           /\ ENABLED (burn_subtitle_task_run(b) \/ burn_subtitle_task_filter(b))
           /\ ENABLED burn_watermark_task_run(w)
     /\ (lastWriter.kind = "burn" /\ lastWriter.id \in DOMAIN burns
           /\ burns[lastWriter.id].status = "completed"
           /\ ContentOfBurn(lastWriter.id) = c) =>
          contents[c].file_path = burns[lastWriter.id].output_file_path
     /\ (lastWriter.kind = "watermark" /\ lastWriter.id \in DOMAIN watermarks
           /\ watermarks[lastWriter.id].status = "completed"
           /\ watermarks[lastWriter.id].content = c) =>
          contents[c].file_path = watermarks[lastWriter.id].output_file_path

\* C10 witness: the burn completed and published its output while the
\* watermark executor was running on the downloaded file, which it had read
\* before; the watermark then overwrote last
C10_Witness ==
  \E c \in DOMAIN contents : \E w \in Overwrote("watermark", c) :
     /\ w.input = DownloadPath(c)
     /\ contents[c].file_path = WatermarkedPath(c)
     /\ lastWriter = Handle("watermark", w.id)
     /\ \E b \in DOMAIN burns :
          /\ ContentOfBurn(b) = c
          /\ burns[b].status = "completed"
          /\ burns[b].output_file_path # contents[c].file_path

\* a request of kind op has been answered in this step
Answered(op) == resp' # resp /\ resp'.op = op

\* messages put on the queue by a .delay() in this step
NewJobs(kind) ==
  {j \in jobs' \ jobs : j.kind = kind /\ j.pc = "queued" /\ j.retries = 0}

\* C11: CreateSubtitle on an instagram or linkedin content whose file_path
\* is null is refused with an error naming the platform, creates no
\* Subtitle and enqueues no job; once the Download has completed (and no
\* 'original' Subtitle stands in the way) the same call succeeds and
\* creates one Subtitle with status pending
C11_SubtitleNeedsDownload ==
  [][\A cid \in DOMAIN contents :
       NeedsFile(cid) =>
         /\ contents[cid].file_path = NoFile =>
              /\ CreatedSubtitles = {}
              /\ NewJobs("subtitle") = {}
              /\ Answered("subtitle_generate") =>
                   /\ resp'.code = 400
                   /\ resp'.error[Len(resp'.error)] = contents[cid].platform
         /\ (/\ Answered("subtitle_generate")
             /\ \E d \in DownloadsOf(cid) : downloads[d].status = "completed"
             /\ get_subtitle_by_content(cid, "original") = {}) =>
              /\ resp'.code = 201
              /\ Cardinality(CreatedSubtitles) = 1
              /\ \A x \in CreatedSubtitles :
                    /\ subtitles'[x].content = cid
                    /\ \E j \in NewJobs("subtitle") : j.id = x]_vars

\* C11 witness: the refusal, naming instagram, of a CreateSubtitle on an
\* instagram content that has no file yet
C11_Witness ==
  /\ resp.op = "subtitle_generate" /\ resp.code = 400
  /\ resp.error = <<"Video must be downloaded before generating subtitles for",
                    "instagram">>
  /\ \E cid \in DOMAIN contents :
        /\ contents[cid].platform = "instagram"
        /\ contents[cid].file_path = NoFile
        /\ get_subtitle_by_content(cid, "original") = {}

\* the Subtitles of (content, language) after the step
SubtitlesAfter(cid, language) ==
  {x \in DOMAIN subtitles' :
     subtitles'[x].content = cid /\ subtitles'[x].language = language}

\* C12: CreateSubtitle is refused as a duplicate and changes nothing when a
\* Subtitle of (content, language) exists in a status other than failed;
\* when the existing Subtitle is failed the call succeeds, the old record is
\* removed and exactly one new pending Subtitle exists for (content,
\* language)
C12_ReplaceOnlyFailed ==
  [][\A cid \in DOMAIN contents :
       LET existing == get_subtitle_by_content(cid, "original")
           live == {x \in existing : subtitles[x].status # "failed"}
       IN
       /\ (Answered("subtitle_generate") /\ live # {}) =>
            /\ resp'.code = 400
            /\ resp'.error = <<"Subtitle already exists for this content.">>
            /\ UNCHANGED <<subtitles, burns, jobs>>
       /\ (Answered("subtitle_generate") /\ existing # {} /\ live = {}) =>
            resp'.code = 201
       /\ \A x \in CreatedSubtitles :
            subtitles'[x].content = cid =>
              /\ live = {}
              /\ existing \cap DOMAIN subtitles' = {}
              /\ BurnsOf(existing) \cap DOMAIN burns' = {}
              /\ SubtitlesAfter(cid, subtitles'[x].language) = {x}
              /\ \E j \in NewJobs("subtitle") : j.id = x]_vars

\* C12 witness: the second CreateSubtitle has replaced the failed first
\* Subtitle by a new pending one (three requests: content, subtitle,
\* subtitle)
C12_Witness ==
  /\ nreq = 3 /\ nextId.subtitle = 3
  /\ resp.op = "subtitle_generate" /\ resp.code = 201
  /\ 1 \notin DOMAIN subtitles
  /\ 2 \in DOMAIN subtitles /\ subtitles[2].status = "pending"
  /\ <<"subtitle", 1>> \in DOMAIN runs

\* translate calls that return in this step without an exception, having
\* reused an existing record
ReusedAndReturned ==
  {t \in translations \ translations' :
     /\ t.pc = "call" /\ t.existing # 0
     /\ nfail' = nfail
     /\ t.target \in DOMAIN subtitles}

\* C13: a TranslateSubtitle that finds a failed Subtitle of (content,
\* target language) reuses that record (same id, no new row); the record
\* goes failed -> generating -> completed and its error_message is null
\* once it is completed
C13_ReuseFailedTranslation ==
  [][/\ \A t \in ReusedAndReturned :
          /\ t.target = t.existing
          /\ subtitles'[t.target].status = "completed"
          /\ subtitles'[t.target].error_message = NULL
     /\ \A t \in translations \ translations' :
          (t.pc = "write" /\ t.existing \in DOMAIN subtitles) =>
            /\ DOMAIN subtitles' = DOMAIN subtitles
            /\ subtitles'[t.existing].status = "generating"]_vars

\* translate calls that pass the checks in this step
NewTranslations == {t \in translations' \ translations : t.pc = "write"}

PreconditionErrors ==
  {<<"Source subtitle must be completed before translation">>,
   <<"Source subtitle has no text to translate">>}

Translatable(sid) ==
  /\ subtitles[sid].status = "completed"
  /\ subtitles[sid].subtitle_text \notin {NULL, ""}

\* C14: TranslateSubtitle on a source Subtitle that is not completed, or has
\* no text, is refused with a precondition error, never reaches the
\* Translator call and creates or modifies no Subtitle
C14_TranslateNeedsCompletedSource ==
  [][/\ \A t \in NewTranslations : Translatable(t.source)
     /\ ( /\ Answered("subtitle_translate")
          /\ translations = {}
          /\ \A sid \in DOMAIN subtitles : ~Translatable(sid) )
        => /\ resp'.code = 400
           /\ resp'.error \in PreconditionErrors
           /\ UNCHANGED <<subtitles, translations, views, jobs, burns>>
     /\ ( /\ Answered("subtitle_translate")
          /\ resp'.error \in PreconditionErrors )
        => /\ resp'.code = 400
           /\ \E sid \in DOMAIN subtitles : ~Translatable(sid)
           /\ UNCHANGED <<subtitles, translations, views, jobs, burns>>]_vars

C14_Witness ==
  /\ resp.op = "subtitle_translate" /\ resp.code = 400
  /\ resp.error = <<"Source subtitle must be completed before translation">>
  /\ translations = {}
  /\ \E sid \in DOMAIN subtitles : subtitles[sid].status = "generating"

\* translate calls that return to the view with an exception in this step
Raised ==
  {t \in translations \ translations' :
     t \notin {[u EXCEPT !.pc = "write", !.target = 0] : u \in translations'}
     /\ (t.pc = "write" \/ nfail' = nfail + 1 \/ t.target \notin DOMAIN subtitles)}

\* some call or job still works on Subtitle s
SubtitleOwned(s) ==
  \/ \E t \in translations : t.target = s \/ t.existing = s
  \/ InFlight(<<"subtitle", s>>)

\* C15: if the Translator call, or any step after the target Subtitle was
\* created or reused, raises, then at the return of the call the target has
\* status failed, an error_message and completed_at, and the caller gets the
\* failure; no Subtitle stays in status generating once its call returned
C15_TranslateFailureRecorded ==
  [][/\ \A t \in Raised :
          /\ resp'.op = "subtitle_translate" /\ resp'.code = 500
          /\ t.target \in DOMAIN subtitles =>
               /\ subtitles'[t.target].status = "failed"
               /\ subtitles'[t.target].error_message # NULL
               /\ subtitles'[t.target].completed_at # NULL
     /\ \A s \in DOMAIN subtitles' :
          subtitles'[s].status = "generating" => SubtitleOwned(s)']_vars

C15_Witness ==
  /\ resp.op = "subtitle_translate" /\ resp.code = 500
  /\ translations = {}
  /\ \E s \in DOMAIN subtitles :
       /\ subtitles[s].language = "spanish"
       /\ subtitles[s].status = "failed"
       /\ subtitles[s].error_message = "translation failed"
       /\ subtitles[s].completed_at = TS

Burnable(sid) ==
  /\ Translatable(sid)
  /\ contents[subtitles[sid].content].file_path # NoFile

CreatedBurns == DOMAIN burns' \ DOMAIN burns

\* C16: CreateSubtitleBurn fails, persists no SubtitleBurn Task and enqueues
\* no job whenever the subtitle is not completed, or has no text, or the
\* owning ContentItem has no current file; otherwise it creates exactly one
\* SubtitleBurn Task with status pending and enqueues one job for it
C16_BurnPreconditions ==
  [][/\ \A b \in CreatedBurns :
          /\ burns'[b].subtitle \in DOMAIN subtitles
          /\ Burnable(burns'[b].subtitle)
          /\ burns'[b].status = "pending"
          /\ CreatedBurns = {b}
          /\ \E j \in jobs' : NewJobs("burn") = {j} /\ j.id = b
          /\ scope.observe => resp'.op = "subtitle_burn" /\ resp'.code = 201
     /\ NewJobs("burn") # {} => CreatedBurns # {}
     /\ Answered("subtitle_burn") =>
          IF resp'.code = 201
            THEN CreatedBurns # {}
            ELSE /\ resp'.code = 400
                 /\ \E sid \in DOMAIN subtitles : ~Burnable(sid)
                 /\ UNCHANGED <<burns, jobs, subtitles, contents>>
     /\ ( /\ Answered("subtitle_burn")
          /\ \A sid \in DOMAIN subtitles : ~Burnable(sid) )
        => resp'.code = 400 /\ UNCHANGED <<burns, jobs>>
     /\ ( /\ Answered("subtitle_burn")
          /\ \A sid \in DOMAIN subtitles : Burnable(sid) )
        => resp'.code = 201 /\ CreatedBurns # {}]_vars

C16_Witness ==
  /\ resp.op = "subtitle_burn" /\ resp.code = 400
  /\ resp.error = <<"Video file must be downloaded before burning subtitles">>
  /\ burns = EmptyTable
  /\ \E sid \in DOMAIN subtitles :
       Translatable(sid) /\ contents[subtitles[sid].content].file_path = NoFile

CreatedDownloads == DOMAIN downloads' \ DOMAIN downloads

\* C17: creating a Download task for a ContentItem whose content kind is not
\* video always fails: no Download Task record is created and no job is
\* enqueued for such a ContentItem
C17_DownloadOnlyForVideo ==
  [][/\ \A d \in CreatedDownloads :
          contents'[downloads'[d].content].content_type = "video"
     /\ \A j \in NewJobs("download") :
          /\ j.id \in DOMAIN downloads'
          /\ contents'[downloads'[j.id].content].content_type = "video"
     /\ ( /\ Answered("create_download")
          /\ \A c \in DOMAIN contents : contents[c].content_type # "video" )
        => resp'.code = 400]_vars

\* messages re-queued by self.retry and not yet picked up by a worker
PendingRetries == {j \in jobs : j.pc = "queued" /\ j.retries > 0}

\* what the status views serialize for Task Record (kind, id)
StatusRead(kind, id) == Table(kind)[id].status

\* C18: a failure of the external capability is surfaced only once the
\* automatic retries are exhausted: while a retry of the Task id is still
\* pending, a status read of the Task Record does not return failed
C18_FailureHiddenWhileRetrying ==
  \A j \in PendingRetries :
    j.id \in DOMAIN Table(j.kind) => StatusRead(j.kind, j.id) # "failed"

\* a and b are the same letter, in whatever case
SameLetter(a, b) ==
  \/ a = b
  \/ \E k \in DOMAIN Uppercase :
       {a, b} = {Uppercase[k], Lowercase[k]}

\* name occurs in url, case ignored
Names(url, name) ==
  \E i \in DOMAIN url :
    /\ i + Len(name) - 1 <= Len(url)
    /\ \A k \in DOMAIN name : SameLetter(url[i + k - 1], name[k])

Instagram(url) == Names(url, instagram_com) \/ Names(url, instagr_am)

Youtube(url) == Names(url, youtube_com) \/ Names(url, youtu_be)

Linkedin(url) == Names(url, linkedin_com)

\* the classification stored with each Content and the platform each
\* download job works with
Classified ==
  {<<contents[c].source_url, contents[c].content_type, contents[c].platform>> :
     c \in DOMAIN contents}
  \cup
  {<<contents[j.content].source_url, contents[j.content].content_type,
     j.platform>> :
     j \in {x \in jobs : x.kind = "download" /\ x.pc = "resolve"
                         /\ x.content \in DOMAIN contents}}

\* C19: the classifier returns (video, instagram) when the lower-cased URL
\* contains "instagram.com" or "instagr.am"; otherwise (video, youtube)
\* when it contains "youtube.com" or "youtu.be"; otherwise (video,
\* linkedin) when it contains "linkedin.com"; otherwise (text, other)
C19_ClassifierByPrecedence ==
  \A c \in Classified :
    LET url == c[1] IN
    <<c[2], c[3]>> =
      IF Instagram(url) THEN <<"video", "instagram">>
      ELSE IF Youtube(url) THEN <<"video", "youtube">>
      ELSE IF Linkedin(url) THEN <<"video", "linkedin">>
      ELSE <<"text", "other">>

C19_Witness ==
  \E j \in jobs :
    /\ j.kind = "download" /\ j.pc = "resolve" /\ j.platform = "instagram"
    /\ j.content \in DOMAIN contents
    /\ Youtube(contents[j.content].source_url)
    /\ ~Contains(contents[j.content].source_url, instagr_am)
    /\ contents[j.content].platform = "instagram"

\* C19 as stated: each name decides the result on its own
C19_AsStated ==
  \A c \in Classified :
    LET url == c[1] IN
    /\ Youtube(url) => <<c[2], c[3]>> = <<"video", "youtube">>
    /\ Instagram(url) => <<c[2], c[3]>> = <<"video", "instagram">>
    /\ Linkedin(url) => <<c[2], c[3]>> = <<"video", "linkedin">>
    /\ ~(Youtube(url) \/ Instagram(url) \/ Linkedin(url))
         => <<c[2], c[3]>> = <<"text", "other">>

\* C20: every Task Record and Subtitle references an existing owner:
\* deleting a ContentItem removes its Download Task, WatermarkBurn Tasks and
\* Subtitles, and deleting a Subtitle removes its SubtitleBurn Tasks, also
\* when executors for those records are in flight
C20_OwnersExist ==
  /\ \A d \in DOMAIN downloads : downloads[d].content \in DOMAIN contents
  /\ \A w \in DOMAIN watermarks : watermarks[w].content \in DOMAIN contents
  /\ \A s \in DOMAIN subtitles : subtitles[s].content \in DOMAIN contents
  /\ \A b \in DOMAIN burns : burns[b].subtitle \in DOMAIN subtitles

\* the ContentItem was deleted while the generation job of its Subtitle
\* was running: its records are gone and the job is still at work
C20_Witness ==
  /\ contents = EmptyTable /\ nextId.content > 1
  /\ nextId.subtitle > 1
  /\ subtitles = EmptyTable /\ downloads = EmptyTable
  /\ \E j \in jobs : j.kind = "subtitle" /\ j.pc # "queued"

\* the executions whose body ends with success in this step
Succeeding == {j \in jobs \ jobs' : j.pc = "complete" /\ j.id \in DOMAIN Table(j.kind)}

\* record (kind, id) has been completed by an earlier run of its task
CompletedBefore(kind, id) ==
  IF kind = "download" THEN downloads[id].file_size # 0
  ELSE IF kind = "subtitle" THEN FALSE
  ELSE Table(kind)[id].output_file_path # NoFile

Tables == <<DOMAIN contents, DOMAIN downloads, DOMAIN subtitles, DOMAIN burns, DOMAIN watermarks>>

C22_CompletedIsTerminal ==
  [][\A kind \in Kinds : \A id \in DOMAIN Table(kind) :
       (Table(kind)[id].status = "completed" /\ id \in DOMAIN TableAfter(kind))
         => TableAfter(kind)[id].status = "completed"]_vars

\* deliveries that find no record for their Task id in this step
FoundNoRecord ==
  {j \in jobs \ jobs' : j.pc = "queued" /\ j.id \notin DOMAIN Table(j.kind)}

\* C23: a job delivered for a Task id that has no Task Record changes no
\* persisted state and schedules no retry
C23_AbsentRecordIsNoOp ==
  [][\A j \in FoundNoRecord :
       /\ jobs' = jobs \ {j}
       /\ UNCHANGED <<contents, downloads, subtitles, burns, watermarks,
                      scratch, pending, translations, views>>]_vars

\* the content was deleted, and the message for its download task was
\* consumed afterwards with nothing left behind
C23_Witness ==
  /\ nreq = 2 /\ nfail = 0 /\ ndup = 1
  /\ contents = EmptyTable /\ downloads = EmptyTable /\ jobs = {}
  /\ <<"download", 1>> \in DOMAIN runs /\ runs[<<"download", 1>>] = 2


\* the output file a burn task or a watermark task writes (tasks.py 686-690
\* and 817-821), from the record's subtitle and content
BurnTarget(b) ==
  LET subtitle == subtitles[burns[b].subtitle]
  IN SubtitledPath(subtitle.content, subtitle.language)

WatermarkTarget(w) == WatermarkedPath(watermarks[w].content)

NonTerminal(row) == row.status \in {"pending", "processing"}

\* C24: output names are collision-free: at no time do two distinct
\* SubtitleBurn or WatermarkBurn Task Records that are both pending or
\* processing target the same output file path
C24_OutputNamesCollisionFree ==
  /\ \A a \in DOMAIN burns, b \in DOMAIN burns :
        a # b /\ NonTerminal(burns[a]) /\ NonTerminal(burns[b])
          => BurnTarget(a) # BurnTarget(b)
  /\ \A v \in DOMAIN watermarks, w \in DOMAIN watermarks :
        v # w /\ NonTerminal(watermarks[v]) /\ NonTerminal(watermarks[w])
          => WatermarkTarget(v) # WatermarkTarget(w)

\* the burn executions that hold the scratch file subtitles/<id>.srt: they
\* have written it and have not reached the end of their finally clause
UsingScratch(id) ==
  {j \in jobs : j.kind = "burn" /\ j.id = id /\ j.pc \in {"filter", "complete"}}

\* the burn executions that take a step which writes (run), reads (filter)
\* or deletes (filter, complete) the scratch file subtitles/<id>.srt
TouchingScratch(id) ==
  {k \in jobs \ jobs' :
     /\ k.kind = "burn" /\ k.id = id
     /\ \/ k.pc = "run" /\ \E k2 \in jobs' \ jobs : k2.pc = "filter"
        \/ k.pc \in {"filter", "complete"}}

\* C25: the scratch subtitle file of a SubtitleBurn execution is private to
\* that execution: while the execution is using it, no other executor
\* invocation running concurrently (another burn task, or a duplicate
\* delivery of the same Task id) writes, reads or deletes it
C25_ScratchIsPrivate ==
  [][\A id \in DOMAIN burns : \A j \in UsingScratch(id) :
        TouchingScratch(id) \subseteq {j}]_vars

\* the burn executions whose try block ends in this step: the filter or an
\* update of the records raised, or the completed status was written
EndedBurns ==
  {j \in jobs \ jobs' :
     /\ j.kind = "burn" /\ j.pc \in {"filter", "complete"}
     /\ ~(j.pc = "filter" /\ \E k \in jobs' \ jobs : k.pc = "complete")}

\* C26: after any SubtitleBurn execution has ended, whether it completed,
\* failed in the video filter, or failed while updating records, the scratch
\* subtitle file it wrote no longer exists; a scratch file exists only while
\* an execution that wrote it has not ended
C26_ScratchRemoved ==
  [][/\ \A j \in EndedBurns : j.id \notin scratch'
     /\ \A id \in scratch' : UsingScratch(id)' # {}]_vars

\* C26 witness: a burn task has failed in the video filter, its execution
\* is in the exception handler, and its scratch file is gone
C26_Witness ==
  \E j \in jobs :
     /\ j.kind = "burn" /\ j.pc = "retry" /\ j.exc = "ffmpeg failed"
     /\ burns[j.id].status = "failed"
     /\ j.id \notin scratch

\* the rows of a table that become completed in this step
Completing(tbl, tbl2) ==
  {id \in DOMAIN tbl2 :
     /\ tbl2[id].status = "completed"
     /\ id \in DOMAIN tbl => tbl[id].status # "completed"}

\* C27: whenever a SubtitleBurn or WatermarkBurn Task Record has status
\* completed its output_file_path is non-null, and at the step where it
\* becomes completed the owning content's file_path equals that
\* output_file_path
C27_CompletedPublishesOutput ==
  [][/\ \A b \in DOMAIN burns' :
          burns'[b].status = "completed" => burns'[b].output_file_path # NoFile
     /\ \A w \in DOMAIN watermarks' :
          watermarks'[w].status = "completed"
            => watermarks'[w].output_file_path # NoFile
     /\ \A b \in Completing(burns, burns') :
          contents'[subtitles'[burns'[b].subtitle].content].file_path
            = burns'[b].output_file_path
     /\ \A w \in Completing(watermarks, watermarks') :
          contents'[watermarks'[w].content].file_path
            = watermarks'[w].output_file_path]_vars

\* the records whose creation operation has written its task_id and whose
\* executor has run and has no execution or retry left
BothFinished(kind) ==
  {id \in DOMAIN Table(kind) :
     /\ Handle(kind, id) \notin pending
     /\ <<kind, id>> \in DOMAIN runs
     /\ ~\E j \in jobs : j.kind = kind /\ j.id = id}

\* C28: no update is lost between a creation operation and the executor it
\* enqueued: for every interleaving of the creation's write of task_id with
\* the executor's status writes, once both have finished the Task Record's
\* task_id equals the handle returned by the enqueue and its status is the
\* one the executor wrote last (completed or failed)
C28_NoLostUpdate ==
  \A kind \in Kinds : \A id \in BothFinished(kind) :
     /\ Table(kind)[id].task_id = id
     /\ Table(kind)[id].status \in {"completed", "failed"}

\* the burn and watermark executions that have run the video filter
Filtered ==
  {j \in jobs : j.kind \in {"burn", "watermark"} /\ j.input # NoFile}

\* C29: for every SubtitleBurn and WatermarkBurn execution in every
\* reachable state, the output file path it writes is different from the
\* file_path it reads as its input, including a second burn for the same
\* subtitle language and a second watermark on the same content
C29_OutputIsNotInput ==
  \A j \in Filtered : OutputOf(j) # j.input

\* C30: in every reachable state, a Task Record or Subtitle whose status is
\* completed has a null error_message, also when the completion follows a
\* failed attempt and an automatic retry, or follows two overlapping
\* translate calls that reused the same failed Subtitle
C30_CompletedHasNoError ==
  \A kind \in Kinds : \A id \in DOMAIN Table(kind) :
     Table(kind)[id].status = "completed"
       => Table(kind)[id].error_message = NULL

\* the ids of the Subtitles that were deleted and replaced: the row is gone
\* and a later Subtitle of the same language stands in its place
Replaced ==
  {id \in 1..(nextId.subtitle - 1) :
     /\ id \notin DOMAIN subtitles
     /\ \E r \in DOMAIN subtitles :
          r > id /\ subtitles[r].language = "original"}

\* the executions and pending retries of the generation job of Subtitle id
\* that take this step
OldJobSteps(id) ==
  {j \in jobs \ jobs' : j.kind = "subtitle" /\ j.id = id}

\* C31: after a failed Subtitle has been deleted and replaced through
\* CreateSubtitle, no pending automatic retry and no in-flight execution of
\* the old generation job modifies the replacement Subtitle record,
\* re-creates the deleted record, or schedules further work for the old id
C31_OldJobIsInert ==
  [][\A id \in Replaced : OldJobSteps(id) # {} =>
        /\ subtitles' = subtitles
        /\ ~\E k \in jobs' \ jobs : k.pc = "queued"]_vars

\* C32: a subtitle-generation request that is rejected (content not video,
\* duplicate, or precondition error) leaves the set of Subtitle records and
\* all their fields unchanged; in particular no rejected request deletes an
\* existing failed Subtitle without creating its replacement
C32_RejectionChangesNothing ==
  [][Answered("subtitle_generate") /\ resp'.code = 400 =>
        /\ subtitles' = subtitles
        /\ burns' = burns
        /\ NewJobs("subtitle") = {}]_vars

\* record id of a table was created by a creation operation that enqueued
\* its job, and has not reached a final status
Unfinished(kind, id) ==
  /\ id \in DOMAIN Table(kind)
  /\ Table(kind)[id].task_id # NoHandle
  /\ Table(kind)[id].status \notin {"completed", "failed"}

\* record id is deleted, or completed, or failed with no retry pending and
\* no execution under way
Finished(kind, id) ==
  \/ id \notin DOMAIN Table(kind)
  \/ Table(kind)[id].status = "completed"
  \/ /\ Table(kind)[id].status = "failed"
     /\ ~\E j \in jobs : j.kind = kind /\ j.id = id

\* C33: under weak fairness of the workers, and assuming every external
\* capability call returns (success or failure), every Task Record or
\* Subtitle that was created and enqueued and is not deleted eventually
\* reaches status completed, or status failed with no retry pending; it
\* never stays forever in pending or in a running status
C33_EventuallyFinished ==
  \A kind \in Kinds : \A id \in 1..FewRequests :
     Unfinished(kind, id) ~> Finished(kind, id)

====
